---- MODULE Spec2Model ----
(***************************************************************************)
(* Model of the estd object dictionary (eobject.hpp / eobject.cpp): the    *)
(* Info hierarchy, the setter strategies, Object::get / set / info, the    *)
(* construction of the Dictionary (estd::sort), Dictionary::get / read /   *)
(* write / find / query and the construction of a Query from text, over    *)
(* byte-addressed backing storage.                                         *)
(***************************************************************************)
EXTENDS Integers, Sequences, FiniteSets, TLC

VARIABLES
  cur,      \* index into items of the Object handle the calls are made on
  mem,      \* mem[i]: the storage block owned behind items[i].object (data_ = base)
  buffer,   \* the caller's output buffer after the last get
  ret,      \* the int32 returned by the last call
  call,     \* the call that has just returned (op = "none" between calls): its
            \* operation, its arguments and the storage before it
  finfo,    \* the FieldInfo returned by the last Object::info
  q,        \* the Dictionary::Query after the last Dictionary::query
  dict,     \* the dictionary: the array handed to its constructor (objects) and
            \* the Item sequence it stores (items), both as indices into the catalogue
  build,    \* a Record Info under construction: the field declarations, the
            \* FieldList built from the first k of them and the Info made of it
  iter,     \* a range-for over items[cur].object: the Field iterator, the ids
            \* yielded so far and what was done with the Field last yielded
  con       \* the console: its input buffer (iobuffer get area) over the driver,
            \* and the last line it executed

vars == <<cur, mem, buffer, ret, call, finfo, q, dict, build, iter, con>>

-----------------------------------------------------------------------------
(* Bounds of the model *)

\* the longest array of items handed to the dictionary constructor
MaxItems == 4
\* the longest text a Query is constructed from, over the whole alphabet
MaxTextLen == 3
\* bytes in each object's storage block
MemSize == 8
\* bytes in the caller's buffer (capacities 0..BufLen are passed to get)
BufLen == 5
\* sub-indices 0..MaxSubIdx (and 255) are passed to get / set / info
MaxSubIdx == 4
\* the most fields declared through the FieldList builder
MaxFields == 3
\* InbufSize of the console's iobuffer: characters in its input buffer
InbufSize == 12

-----------------------------------------------------------------------------
(* enum Error : int32_t, eobject.hpp 30-61.  0xC09B0000 as int32 is ErrBase *)

ErrBase == -1063583744
OK == 0
WriteOnly == ErrBase + 3
ReadOnly == ErrBase + 4
ObjectNotFound == ErrBase + 5
UnableToSet == ErrBase + 8
DataTypeError == ErrBase + 10
ParamTooLong == ErrBase + 11
ParamTooShort == ErrBase + 12
FieldNotFound == ErrBase + 13
ValueTooHigh == ErrBase + 15
ValueTooLow == ErrBase + 16

-----------------------------------------------------------------------------
(* DataType and type_size, eobject.cpp 53-69 *)

DataTypes == {"Invalid", "U8", "U16", "U32", "I8", "I16", "I32", "String", "BinString", "Record"}

type_size(type) ==
  CASE type = "Invalid" -> 0
    [] type = "U8" -> 1
    [] type = "U16" -> 2
    [] type = "U32" -> 4
    [] type = "I8" -> 1
    [] type = "I16" -> 2
    [] type = "I32" -> 4
    [] type = "String" -> 1
    [] type = "BinString" -> 1
    [] type = "Record" -> 0
    [] OTHER -> 0

\* sizeof(T) of the scalar T behind a DataType tag (Type_<T>::id)
SizeOf(T) == type_size(T)

IsSigned(T) == T \in {"I8", "I16", "I32"}

Pow256(n) == IF n = 0 THEN 1 ELSE IF n = 1 THEN 256 ELSE IF n = 2 THEN 65536 ELSE 16777216

\* the little-endian bytes of the w-byte integer v, w <= 4 (two's complement
\* when v < 0: \div rounds down and % is never negative)
Bytes(v, w) == [k \in 1..w |-> (v \div Pow256(k - 1)) % 256]

\* the unsigned value of the first w bytes
RECURSIVE Unsigned(_, _)
Unsigned(bytes, w) ==
  IF w = 0 THEN 0 ELSE bytes[1] + 256 * Unsigned(Tail(bytes), w - 1)

\* *static_cast<const T*>(data): the value of type T held in the first
\* sizeof(T) bytes; the last byte of a signed T carries the sign.  A uint32_t
\* above INT32_MAX is beyond the integers of the model
Decode(T, bytes) ==
  LET w == SizeOf(T)
  IN IF IsSigned(T) /\ bytes[w] >= 128
       THEN Unsigned(bytes, w - 1) + (bytes[w] - 256) * Pow256(w - 1)
       ELSE Unsigned(bytes, w)

-----------------------------------------------------------------------------
(* estd::string_view, estring.hpp 79-85 and 174-210: a view is the sequence *)
(* of its character codes                                                   *)

\* tolower leaving every character as it is
tolower_none(c) == c

\* estd::tolower
tolower(c) == IF c >= 65 /\ c <= 90 THEN c + 32 ELSE c

RECURSIVE compare_from(_, _, _, _)
compare_from(a, b, i, n) ==
  IF i > n
    THEN IF Len(a) = Len(b) THEN 0 ELSE IF Len(a) < Len(b) THEN -1 ELSE 1
    ELSE IF tolower(a[i]) < tolower(b[i]) THEN -1
    ELSE IF tolower(a[i]) > tolower(b[i]) THEN 1
    ELSE compare_from(a, b, i + 1, n)

\* string_view::compare
compare(a, b) == compare_from(a, b, 1, IF Len(a) < Len(b) THEN Len(a) ELSE Len(b))

\* operator==(const string_view&, const string_view&)
sv_eq(a, b) == compare(a, b) = 0

\* estd::isspace
isspace(c) == (c >= 9 /\ c <= 13) \/ c = 32

\* Dictionary::Query::issep: '.', ':' or '/'
Query_issep(c) == c = 46 \/ c = 58 \/ c = 47

\* isequal of console.cpp: '='
isequal(c) == c = 61

\* eio::isendline: '\n' or '\r'
isendline(c) == c = 10 \/ c = 13

\* std::isdigit
isdigit(c) == c >= 48 /\ c <= 57

\* a predicate handed to trim_prefix / trim_suffix / next_token, applied
Pred(pred, c) ==
  CASE pred = "isspace" -> isspace(c)
    [] pred = "issep" -> Query_issep(c)
    [] pred = "isequal" -> isequal(c)
    [] pred = "isendline" -> isendline(c)

\* string_view::remove_prefix(n) and remove_suffix(n)
remove_prefix(str, n) == IF n <= Len(str) THEN SubSeq(str, n + 1, Len(str)) ELSE str
remove_suffix(str, n) == IF n <= Len(str) THEN SubSeq(str, 1, Len(str) - n) ELSE str

\* estd::find_if / find_if_not from position k (0-based): the position they return
RECURSIVE find_if(_, _, _)
find_if(str, k, pred) ==
  IF k < Len(str) /\ ~Pred(pred, str[k + 1]) THEN find_if(str, k + 1, pred) ELSE k
RECURSIVE find_if_not(_, _, _)
find_if_not(str, k, pred) ==
  IF k < Len(str) /\ Pred(pred, str[k + 1]) THEN find_if_not(str, k + 1, pred) ELSE k

\* estd::trim_prefix(str, pred)
trim_prefix(str, pred) == remove_prefix(str, find_if_not(str, 0, pred))

\* the loop of trim_suffix: the position it stops at
RECURSIVE trim_back(_, _, _)
trim_back(str, it, pred) ==
  IF it > 0 /\ Pred(pred, str[it]) THEN trim_back(str, it - 1, pred) ELSE it

\* trim_suffix doing nothing
trim_suffix_none(str, pred) == str

\* estd::trim_suffix(str, pred)
trim_suffix(str, pred) == remove_suffix(str, Len(str) - trim_back(str, Len(str), pred))

\* next_token taking the whole remaining text as the token
next_token_whole(str, pred) == [token |-> trim_prefix(str, pred), str |-> <<>>]

\* estd::next_token(str, pred): the token and the view str refers to afterwards
next_token(str, pred) ==
  LET s1 == trim_prefix(str, pred)
      loc == find_if(s1, 0, pred)
  IN [token |-> SubSeq(s1, 1, loc),
      str |-> IF loc < Len(s1) THEN remove_prefix(s1, loc + 1) ELSE remove_prefix(s1, loc)]

\* the string literals used for names and queries
S == [
  speed |-> <<115, 112, 101, 101, 100>>,  level |-> <<108, 101, 118, 101, 108>>,
  free |-> <<102, 114, 101, 101>>,        serial |-> <<115, 101, 114, 105, 97, 108>>,
  trigger |-> <<116, 114, 105, 103, 103, 101, 114>>, gain |-> <<103, 97, 105, 110>>,
  label |-> <<108, 97, 98, 101, 108>>,    gains |-> <<103, 97, 105, 110, 115>>,
  taps |-> <<116, 97, 112, 115>>,         status |-> <<115, 116, 97, 116, 117, 115>>,
  cfg |-> <<99, 102, 103>>,               cmd |-> <<99, 109, 100>>,
  temp |-> <<116, 101, 109, 112>>,        flags |-> <<102, 108, 97, 103, 115>>,
  kp |-> <<107, 112>>,                    ki |-> <<107, 105>>,
  go |-> <<103, 111>>,                    stop |-> <<115, 116, 111, 112>>,
  a |-> <<97>>, b |-> <<98>>, c |-> <<99>>, x |-> <<120>>, y |-> <<121>>,
  TEMP |-> <<84, 69, 77, 80>>,            KP |-> <<75, 80>>,
  C |-> <<67>>,                           nope |-> <<110, 111, 112, 101>>,
  STATUS |-> <<83, 84, 65, 84, 85, 83>>,  empty |-> <<>>,
  arm |-> <<97, 114, 109>>,               sink |-> <<115, 105, 110, 107>> ]

-----------------------------------------------------------------------------
(* The setter strategies as bound template instantiations (eobject.hpp     *)
(* 177-233, 810-816): a SetFunctionType value is the record of the         *)
(* function and its template arguments                                     *)

set_variable_fn(T, min, max) == [fn |-> "set_variable", T |-> T, min |-> min, max |-> max]
set_default_fn(T, member, min, max) ==
  [fn |-> "set_default", T |-> T, member |-> member, min |-> min, max |-> max]
set_string_variable_fn(Length) == [fn |-> "set_string_variable", Length |-> Length]
set_wrapper_fn(T, min, max) == [fn |-> "set_wrapper", T |-> T, min |-> min, max |-> max]
set_readonly_fn == [fn |-> "set_readonly"]
set_chain_fn(f1, f2) == [fn |-> "set_chain", f1 |-> f1, f2 |-> f2]
set_data_fn == [fn |-> "set_data"]

-----------------------------------------------------------------------------
(* The Info hierarchy, eobject.hpp 257-267, 489-534, 603-654, 820-966 *)

\* Object::Info with the members of the derived Variable / Array / Record Info
MkInfo(otype, type, nelem, offset, size, setf, min, max, names, fields) ==
  [otype |-> otype, type |-> type, nelem |-> nelem, data_offset |-> offset,
   data_size |-> size, set_function |-> setf, range |-> [min |-> min, max |-> max],
   names |-> names, fields |-> fields]

\* Variable::make_info<T, min, max>(perm, setf): Info(perm, 0, setf, min, max)
Variable_make_info(T, setf, min, max) ==
  MkInfo("Variable", T, 1, 0, SizeOf(T), setf, min, max, <<>>, <<>>)

\* Variable::make_string_info<Length>(perm, setf)
Variable_make_string_info(Length, setf) ==
  MkInfo("Variable", "String", 1, 0, Length, setf, 0, 0, <<>>, <<>>)

\* Array::make_info<Count>(perm, offset, member, names, setf, min, max)
Array_make_info(T, Count, offset, names, setf, min, max) ==
  MkInfo("Array", T, Count, offset, SizeOf(T) * Count, setf, min, max, names, <<>>)

\* Record::FieldInfo(perm, name, offset, setf, min, max)
FieldInfo(T, name, offset, setf, min, max) ==
  [otype |-> "Variable", type |-> T, nelem |-> 1, data_offset |-> offset,
   data_size |-> SizeOf(T), set_function |-> setf, range |-> [min |-> min, max |-> max],
   name |-> name]

\* FieldList<Count, Offset, Size>: the fields declared so far
FieldList0 == [Count |-> 0, Offset |-> 0, Size |-> 0, fields_arr |-> <<>>, ok |-> TRUE]

\* FieldList::field without its static_assert
FieldList_field_unasserted(fl, f) ==
  [Count |-> fl.Count + 1,
   Offset |-> IF fl.Count = 0 THEN f.data_offset ELSE fl.Offset,
   Size |-> IF fl.Count = 0 THEN f.data_size ELSE fl.Size + f.data_size,
   fields_arr |-> Append(fl.fields_arr, f),
   ok |-> fl.ok]

\* FieldList::field / setter_field: the static_assert rejects a gap (ok = FALSE)
FieldList_field(fl, f) ==
  [Count |-> fl.Count + 1,
   Offset |-> IF fl.Count = 0 THEN f.data_offset ELSE fl.Offset,
   Size |-> IF fl.Count = 0 THEN f.data_size ELSE fl.Size + f.data_size,
   fields_arr |-> Append(fl.fields_arr, f),
   ok |-> fl.ok /\ (fl.Count = 0 \/ f.data_offset = fl.Size + fl.Offset)]

RECURSIVE FieldList_of(_)
FieldList_of(fs) ==
  IF fs = <<>> THEN FieldList0
  ELSE FieldList_field(FieldList_of(SubSeq(fs, 1, Len(fs) - 1)), fs[Len(fs)])

\* Record::make_info(perm, fields, setf = detail::set_data)
Record_make_info(fl, setf) ==
  MkInfo("Record", "Record", fl.Count, fl.Offset, fl.Size, setf, 0, 0, <<>>, fl.fields_arr)

-----------------------------------------------------------------------------
(* The dictionary under test: Dictionary::Item { address, pdo_mapping,     *)
(* object }, Object { name_, info_, data_ }.  data = TRUE binds data_ to   *)
(* the base of the object's storage block, data = FALSE is data_ = nullptr *)

Item(address, name, info, data) ==
  [address |-> address, pdo_mapping |-> 0,
   object |-> [name |-> name, info |-> info, data |-> data]]

StatusFields == <<
  FieldInfo("I16", S.temp, 0, set_default_fn("I16", 0, -40, 125), -40, 125),
  FieldInfo("U8", S.flags, 2, set_readonly_fn, 0, 0) >>

\* fields kp, ki of a structure whose first member (offset 0) is not exposed
CfgFields == <<
  FieldInfo("U8", S.kp, 1, set_default_fn("U8", 1, 2, 5), 2, 5),
  FieldInfo("U8", S.ki, 2, set_default_fn("U8", 2, 0, 0), 0, 0) >>

\* setter_field entries: every field is written through its external setter
CmdFields == <<
  FieldInfo("U8", S.go, 0, set_wrapper_fn("U8", 0, 1), 0, 1),
  FieldInfo("U8", S.stop, 1, set_wrapper_fn("U8", 0, 1), 0, 1),
  FieldInfo("U8", S.go, 2, set_wrapper_fn("U8", 0, 0), 0, 0) >>

\* the catalogue of Item objects; make_dictionary(items...) is the full dictionary
items == <<
  Item(4096, S.speed, Variable_make_info("U8", set_variable_fn("U8", 2, 5), 2, 5), TRUE),
  Item(4097, S.level, Variable_make_info("I16", set_variable_fn("I16", -40, 125), -40, 125), TRUE),
  Item(4098, S.free, Variable_make_info("U8", set_variable_fn("U8", 0, 0), 0, 0), TRUE),
  Item(4099, S.serial, Variable_make_info("U16", set_readonly_fn, 0, 0), TRUE),
  Item(4100, S.trigger, Variable_make_info("U8", set_wrapper_fn("U8", 2, 5), 2, 5), FALSE),
  Item(4101, S.gain, Variable_make_info("U8",
         set_chain_fn(set_variable_fn("U8", 2, 5), set_wrapper_fn("U8", 2, 5)), 2, 5), TRUE),
  Item(4102, S.label, Variable_make_string_info(3, set_string_variable_fn(3)), TRUE),
  Item(6144, S.gains, Array_make_info("U16", 3, 2, <<S.a, S.b, S.c>>, set_readonly_fn, 0, 0), TRUE),
  Item(6145, S.taps, Array_make_info("U8", 3, 0, <<S.x, S.y, S.x>>, set_readonly_fn, 0, 0), FALSE),
  Item(8192, S.status, Record_make_info(FieldList_of(StatusFields), set_data_fn), TRUE),
  Item(8193, S.cfg, Record_make_info(FieldList_of(CfgFields), set_data_fn), TRUE),
  Item(8194, S.cmd, Record_make_info(FieldList_of(CmdFields), set_data_fn), FALSE),
  Item(8195, S.arm, Variable_make_info("U8",
         set_chain_fn(set_wrapper_fn("U8", 2, 5), set_variable_fn("U8", 0, 0)), 2, 5), TRUE),
  Item(8196, S.sink, Variable_make_info("U8", set_variable_fn("U8", 2, 5), 2, 5), FALSE) >>

count == Len(items)

Addr == 0..(MemSize - 1)

-----------------------------------------------------------------------------
(* Object::detail::check<T>, eobject.hpp 151-175 (data is never nullptr here) *)

\* check with the upper bound itself rejected
check_exclusive_max(T, min, max, data, size) ==
  IF size > SizeOf(T) THEN ParamTooLong
  ELSE IF size < SizeOf(T) THEN ParamTooShort
  ELSE IF min # max /\ Decode(T, data) < min THEN ValueTooLow
  ELSE IF min # max /\ Decode(T, data) >= max THEN ValueTooHigh
  ELSE OK

check(T, min, max, data, size) ==
  IF size > SizeOf(T) THEN ParamTooLong
  ELSE IF size < SizeOf(T) THEN ParamTooShort
  ELSE IF min # max /\ Decode(T, data) < min THEN ValueTooLow
  ELSE IF min # max /\ Decode(T, data) > max THEN ValueTooHigh
  ELSE OK

\* memcpy(block + at, bytes, n)
Store(block, at, bytes, n) ==
  [a \in Addr |-> IF a >= at /\ a < at + n THEN bytes[a - at + 1] ELSE block[a]]

\* memset(block + at, 0, n)
Zero(block, at, n) ==
  [a \in Addr |-> IF a >= at /\ a < at + n THEN 0 ELSE block[a]]

\* the outcome of one set call: the result, the storage block afterwards, the
\* values handed to the external setter, and whether a store went through nullptr
SetResult(r, block, calls, fault) == [ret |-> r, mem |-> block, calls |-> calls, fault |-> fault]

\* Object::data(): data_ + info_->data_offset as an offset into the block
Object_data(obj) == obj.info.data_offset

\* set_variable<T, min, max>, eobject.hpp 186-193
set_variable(f, obj, block, data, size) ==
  LET e == check(f.T, f.min, f.max, data, size)
  IN IF e # OK THEN SetResult(e, block, <<>>, FALSE)
     ELSE IF ~obj.data THEN SetResult(OK, block, <<>>, TRUE)
     ELSE SetResult(OK, Store(block, Object_data(obj), data, SizeOf(f.T)), <<>>, FALSE)

\* set_default storing as soon as the size fits, before the range is checked
set_default_store_first(f, obj, block, data, size) ==
  LET e == check(f.T, f.min, f.max, data, size)
  IN IF e \in {ParamTooLong, ParamTooShort} THEN SetResult(e, block, <<>>, FALSE)
     ELSE SetResult(e, Store(block, Object_data(obj) + f.member, data, SizeOf(f.T)), <<>>, FALSE)

\* set_default<DataClass, T, member, min, max>, eobject.hpp 177-184
set_default(f, obj, block, data, size) ==
  LET e == check(f.T, f.min, f.max, data, size)
  IN IF e # OK THEN SetResult(e, block, <<>>, FALSE)
     ELSE IF ~obj.data THEN SetResult(OK, block, <<>>, TRUE)
     ELSE SetResult(OK, Store(block, Object_data(obj) + f.member, data, SizeOf(f.T)), <<>>, FALSE)

\* set_string_variable without the memset of the remaining bytes
set_string_variable_unfilled(f, obj, block, data, size) ==
  IF size > f.Length THEN SetResult(ParamTooLong, block, <<>>, FALSE)
  ELSE IF size = f.Length /\ data[size] # 0 THEN SetResult(ParamTooLong, block, <<>>, FALSE)
  ELSE IF ~obj.data THEN SetResult(OK, block, <<>>, TRUE)
  ELSE SetResult(OK, Store(block, Object_data(obj), data, size), <<>>, FALSE)

\* set_string_variable<Length>, eobject.hpp 195-209
set_string_variable(f, obj, block, data, size) ==
  IF size > f.Length THEN SetResult(ParamTooLong, block, <<>>, FALSE)
  ELSE IF size = f.Length /\ data[size] # 0 THEN SetResult(ParamTooLong, block, <<>>, FALSE)
  ELSE IF ~obj.data THEN SetResult(OK, block, <<>>, TRUE)
  ELSE LET copied == Store(block, Object_data(obj), data, size)
       IN SetResult(OK,
                    IF size < f.Length
                      THEN Zero(copied, Object_data(obj) + size, f.Length - size)
                      ELSE copied,
                    <<>>, FALSE)

\* set_wrapper handing the value to setf as soon as the size fits, before the
\* range is checked
set_wrapper_unchecked(f, data, size, block, ext) ==
  LET e == check(f.T, f.min, f.max, data, size)
  IN IF e \in {ParamTooLong, ParamTooShort} THEN SetResult(e, block, <<>>, FALSE)
     ELSE SetResult(IF e # OK THEN e ELSE ext, block, <<Decode(f.T, data)>>, FALSE)

\* set_wrapper<T, setf, min, max>, eobject.hpp 211-217; ext is what setf returns
set_wrapper(f, data, size, block, ext) ==
  LET e == check(f.T, f.min, f.max, data, size)
  IN IF e # OK THEN SetResult(e, block, <<>>, FALSE)
     ELSE SetResult(ext, block, <<Decode(f.T, data)>>, FALSE)

\* set_readonly, eobject.hpp 219-222
set_readonly(block) == SetResult(ReadOnly, block, <<>>, FALSE)

RECURSIVE invoke(_, _, _, _, _, _, _)

\* the call through a SetFunctionType pointer with set_chain running f2 whatever
\* f1 returned, and returning f1's error when there is one
invoke_chain_both(f, obj, block, subIdx, data, size, ext) ==
  CASE f.fn = "set_variable" -> set_variable(f, obj, block, data, size)
    [] f.fn = "set_default" -> set_default(f, obj, block, data, size)
    [] f.fn = "set_string_variable" -> set_string_variable(f, obj, block, data, size)
    [] f.fn = "set_wrapper" -> set_wrapper(f, data, size, block, ext)
    [] f.fn = "set_readonly" -> set_readonly(block)
    [] f.fn = "set_chain" ->
         LET r1 == invoke(f.f1, obj, block, subIdx, data, size, ext)
             r2 == invoke(f.f2, obj, r1.mem, subIdx, data, size, ext)
         IN SetResult(IF r1.ret = OK THEN r2.ret ELSE r1.ret, r2.mem,
                      r1.calls \o r2.calls, r1.fault \/ r2.fault)
    [] f.fn = "set_data" ->
         IF obj.info.otype # "Record" \/ subIdx > obj.info.nelem
           THEN SetResult(FieldNotFound, block, <<>>, FALSE)
         ELSE IF subIdx = 0 THEN SetResult(ReadOnly, block, <<>>, FALSE)
         ELSE invoke(obj.info.fields[subIdx].set_function, obj, block, subIdx, data, size, ext)

\* a call through a SetFunctionType pointer; set_chain (eobject.hpp 227-233)
\* and Record::detail::set_data (eobject.hpp 810-816) call further setters
invoke(f, obj, block, subIdx, data, size, ext) ==
  CASE f.fn = "set_variable" -> set_variable(f, obj, block, data, size)
    [] f.fn = "set_default" -> set_default(f, obj, block, data, size)
    [] f.fn = "set_string_variable" -> set_string_variable(f, obj, block, data, size)
    [] f.fn = "set_wrapper" -> set_wrapper(f, data, size, block, ext)
    [] f.fn = "set_readonly" -> set_readonly(block)
    [] f.fn = "set_chain" ->
         LET r1 == invoke(f.f1, obj, block, subIdx, data, size, ext)
         IN IF r1.ret = OK
              THEN LET r2 == invoke(f.f2, obj, r1.mem, subIdx, data, size, ext)
                   IN SetResult(r2.ret, r2.mem, r1.calls \o r2.calls, r1.fault \/ r2.fault)
              ELSE r1
    [] f.fn = "set_data" ->
         IF obj.info.otype # "Record" \/ subIdx > obj.info.nelem
           THEN SetResult(FieldNotFound, block, <<>>, FALSE)
         ELSE IF subIdx = 0 THEN SetResult(ReadOnly, block, <<>>, FALSE)
         ELSE invoke(obj.info.fields[subIdx].set_function, obj, block, subIdx, data, size, ext)

\* Object::set(subIdx, data, size), eobject.hpp 362-366
Object_set(obj, block, subIdx, data, size, ext) ==
  invoke(obj.info.set_function, obj, block, subIdx, data, size, ext)

-----------------------------------------------------------------------------
(* Object::get, eobject.hpp 383-391 and eobject.cpp 71-124 *)

GetResult(r, buf) == [ret |-> r, buffer |-> buf]

\* memcpy(buf, block + from, n)
Copy(buf, block, from, n) ==
  [i \in 1..Len(buf) |-> IF i <= n THEN block[from + i - 1] ELSE buf[i]]

\* *reinterpret_cast<uint8_t*>(buffer) = v
PutByte(buf, v) == [i \in 1..Len(buf) |-> IF i = 1 THEN v ELSE buf[i]]

\* get(buffer, size) returning a status (OK) in place of the byte count
Object_get_all_status(obj, block, buf, size) ==
  IF ~obj.data THEN GetResult(WriteOnly, buf)
  ELSE IF obj.info.data_size < size
    THEN GetResult(OK, Copy(buf, block, obj.info.data_offset, obj.info.data_size))
    ELSE GetResult(OK, buf)

\* Object::get(void* buffer, size_t size): the entire object as binary data
Object_get_all(obj, block, buf, size) ==
  IF ~obj.data THEN GetResult(WriteOnly, buf)
  ELSE IF obj.info.data_size < size
    THEN GetResult(obj.info.data_size, Copy(buf, block, obj.info.data_offset, obj.info.data_size))
    ELSE GetResult(obj.info.data_size, buf)

\* case Object::ClassId::Variable, eobject.cpp 77-79
Object_get_Variable(obj, block, subIdx, buf, size) ==
  IF subIdx = 0 THEN Object_get_all(obj, block, buf, size)
  ELSE GetResult(FieldNotFound, buf)

\* the Array case locating the elements from data_ instead of data_ + data_offset
Object_get_Array_no_offset(obj, block, subIdx, buf, size) ==
  IF subIdx <= obj.info.nelem
    THEN IF subIdx = 0 THEN GetResult(1, PutByte(buf, obj.info.nelem))
         ELSE LET elem_size == type_size(obj.info.type)
              IN GetResult(elem_size,
                   Copy(buf, block, elem_size * (subIdx - 1), elem_size))
    ELSE GetResult(FieldNotFound, buf)

\* case Object::ClassId::Array, eobject.cpp 80-99
Object_get_Array(obj, block, subIdx, buf, size) ==
  IF subIdx <= obj.info.nelem
    THEN IF subIdx = 0 THEN GetResult(1, PutByte(buf, obj.info.nelem))
         ELSE LET elem_size == type_size(obj.info.type)
              IN GetResult(elem_size,
                   Copy(buf, block, obj.info.data_offset + elem_size * (subIdx - 1), elem_size))
    ELSE GetResult(FieldNotFound, buf)

\* the Record case refusing a buffer that holds the field exactly
Object_get_Record_strict(obj, block, subIdx, buf, size) ==
  IF subIdx <= obj.info.nelem
    THEN IF subIdx = 0 THEN GetResult(1, PutByte(buf, obj.info.nelem))
         ELSE LET info == obj.info.fields[subIdx]
              IN IF info.data_size >= size THEN GetResult(ParamTooShort, buf)
                 ELSE GetResult(info.data_size, Copy(buf, block, info.data_offset, info.data_size))
    ELSE GetResult(FieldNotFound, buf)

\* case Object::ClassId::Record, eobject.cpp 100-121
Object_get_Record(obj, block, subIdx, buf, size) ==
  IF subIdx <= obj.info.nelem
    THEN IF subIdx = 0 THEN GetResult(1, PutByte(buf, obj.info.nelem))
         ELSE LET info == obj.info.fields[subIdx]
              IN IF info.data_size > size THEN GetResult(ParamTooShort, buf)
                 ELSE GetResult(info.data_size, Copy(buf, block, info.data_offset, info.data_size))
    ELSE GetResult(FieldNotFound, buf)

\* Object::get testing data_ only on the paths that read the storage, so that
\* the element count of a compound object is served without it
Object_get_count_unchecked(obj, block, subIdx, buf, size) ==
  IF ~obj.data /\ (obj.info.otype = "Variable" \/ subIdx # 0) THEN GetResult(WriteOnly, buf)
  ELSE CASE obj.info.otype = "Variable" -> Object_get_Variable(obj, block, subIdx, buf, size)
         [] obj.info.otype = "Array" -> Object_get_Array(obj, block, subIdx, buf, size)
         [] obj.info.otype = "Record" -> Object_get_Record(obj, block, subIdx, buf, size)
         [] OTHER -> GetResult(ObjectNotFound, buf)

\* Object::get(uint8_t subIdx, void* buffer, size_t size)
Object_get(obj, block, subIdx, buf, size) ==
  IF ~obj.data THEN GetResult(WriteOnly, buf)
  ELSE CASE obj.info.otype = "Variable" -> Object_get_Variable(obj, block, subIdx, buf, size)
         [] obj.info.otype = "Array" -> Object_get_Array(obj, block, subIdx, buf, size)
         [] obj.info.otype = "Record" -> Object_get_Record(obj, block, subIdx, buf, size)
         [] OTHER -> GetResult(ObjectNotFound, buf)

-----------------------------------------------------------------------------
(* Object::info(subIdx), eobject.cpp 126-155.  Pointers to Info and to      *)
(* names are references: the item, and the field or element they point at   *)

Ref(kind, item, field) == [kind |-> kind, item |-> item, field |-> field]
NullRef == Ref("nullptr", 0, 0)

\* the Info a reference points at (a Record::FieldInfo for kind "field")
Deref(r) ==
  IF r.kind = "field" THEN items[r.item].object.info.fields[r.field]
  ELSE items[r.item].object.info

\* the string_view a name reference points at
NameOf(r) ==
  IF r.kind = "field" THEN items[r.item].object.info.fields[r.field].name
  ELSE items[r.item].object.info.names[r.field]

MkFieldInfo(info, name, offset, size) ==
  [info |-> info, name |-> name, offset |-> offset, size |-> size]

Object_info(i, subIdx) ==
  LET info_ == items[i].object.info
  IN IF subIdx > 0 /\ subIdx <= info_.nelem
       THEN CASE info_.otype = "Record" ->
                   MkFieldInfo(Ref("field", i, subIdx), Ref("field", i, subIdx),
                               info_.data_offset, info_.fields[subIdx].data_size)
              [] info_.otype = "Array" ->
                   MkFieldInfo(Ref("object", i, 0), Ref("element", i, subIdx),
                               info_.data_offset + type_size(info_.type) * (subIdx - 1),
                               type_size(info_.type))
              [] OTHER ->
                   MkFieldInfo(Ref("object", i, 0), NullRef, info_.data_offset, info_.data_size)
       ELSE MkFieldInfo(Ref("object", i, 0), NullRef, 0, 0)

\* Object::FieldInfo::valid
FieldInfo_valid(fi) == fi.name # NullRef

-----------------------------------------------------------------------------
(* estd::sort (heap sort), estd.hpp 84-201, and estd::lower_bound, estd.hpp *)
(* 203-222, over arrays of catalogue indices; positions are 0-based as in   *)
(* the code, a[p + 1] is the element at first + p                           *)

\* TDictionary::compare_address
compare_address(l, r) == items[l].address < items[r].address

\* the quotient x / 2 of signed integers, which truncates towards zero
Half(x) == IF x < 0 THEN 0 - ((0 - x) \div 2) ELSE x \div 2

\* *(first + p) = v
Put(a, p, v) == [a EXCEPT ![p + 1] = v]

\* the left child taken whatever the right one holds
LargerChild_left(a, len, child) == child

\* the larger child of the pair starting at position child: its position
LargerChild(a, len, child) ==
  IF (child + 1) < len /\ compare_address(a[child + 1], a[child + 2]) THEN child + 1 ELSE child

\* the do-while loop of __sift_down: the hole at start takes its largest child
\* until the children are in heap order with top
RECURSIVE sift_loop(_, _, _, _, _)
sift_loop(a, len, start, cit, top) ==
  LET a1 == Put(a, start, a[cit + 1])
  IN IF Half(len - 2) < cit THEN Put(a1, cit, top)
     ELSE LET next == LargerChild(a1, len, 2 * cit + 1)
          IN IF ~compare_address(a1[next + 1], top)
               THEN sift_loop(a1, len, cit, next, top)
               ELSE Put(a1, cit, top)

\* detail::__sift_down(first, len, start, comp)
sift_down(a, len, start) ==
  IF len < 2 \/ Half(len - 2) < start THEN a
  ELSE LET cit == LargerChild(a, len, 2 * start + 1)
       IN IF compare_address(a[cit + 1], a[start + 1]) THEN a
          ELSE sift_loop(a, len, start, cit, a[start + 1])

\* the for loop of make_heap from position start down to 0
RECURSIVE heapify_from(_, _, _)
heapify_from(a, N, start) ==
  IF start < 0 THEN a ELSE heapify_from(sift_down(a, N, start), N, start - 1)

\* estd::make_heap(begin, end, comp)
make_heap(a) ==
  LET N == Len(a) IN IF N < 1 THEN a ELSE heapify_from(a, N, Half(N - 2))

\* detail::__pop_heap(first, last, len, comp)
pop_heap(a, len) ==
  IF len > 1
    THEN sift_down(Put(Put(a, 0, a[len]), len - 1, a[1]), len - 1, 0)
    ELSE a

\* estd::sort_heap(first, last, comp): the loop from n = last - first elements
\* down to 2, last within the array
RECURSIVE sort_heap(_, _)
sort_heap(a, n) == IF n > 1 /\ n <= Len(a) THEN sort_heap(pop_heap(a, n), n - 1) ELSE a

\* estd::sort(range, comp)
sort(a) == sort_heap(make_heap(a), Len(a))

\* TDictionary<Count>(objects): Dictionary(Count, objects[0]), items_n{objects[Ns]...}
\* over the sorted array
TDictionary(objects) == [objects |-> objects, items |-> sort(objects)]

\* make_dictionary(args...)
make_dictionary(args) == TDictionary(args)

\* estd::lower_bound(first, last, value, comp) with comp(l, address) ==
\* l.address < address: the 0-based position returned
RECURSIVE lower_bound(_, _, _, _)
lower_bound(a, first, cnt, address) ==
  IF cnt > 0
    THEN LET step == cnt \div 2
             it == first + step
         IN IF items[a[it + 1]].address < address
              THEN lower_bound(a, it + 1, cnt - (step + 1), address)
              ELSE lower_bound(a, first, step, address)
    ELSE first

\* the binary search ending on the first position instead of the lower bound
Dictionary_get_unsearched(d, address) ==
  IF items[d.items[1]].address = address THEN 1 ELSE 0

\* Dictionary::get(address): the 1-based position of the item whose object is
\* returned, 0 for nullptr
Dictionary_get(d, address) ==
  LET it == lower_bound(d.items, 0, Len(d.items), address)
  IN IF it # Len(d.items) /\ items[d.items[it + 1]].address = address THEN it + 1 ELSE 0

\* Dictionary::write going on to the first item when the address is not found
Dictionary_write_unresolved(d, blocks, address, subIdx, data, size, ext) ==
  LET o == Dictionary_get(d, address)
      i == IF o = 0 THEN d.items[1] ELSE d.items[o]
      r == Object_set(items[i].object, blocks[i], subIdx, data, size, ext)
  IN [ret |-> r.ret, mem |-> [blocks EXCEPT ![i] = r.mem], calls |-> r.calls, fault |-> r.fault]

\* Dictionary::write(address, subIdx, data, size)
Dictionary_write(d, blocks, address, subIdx, data, size, ext) ==
  LET o == Dictionary_get(d, address)
  IN IF o = 0 THEN [ret |-> ObjectNotFound, mem |-> blocks, calls |-> <<>>, fault |-> FALSE]
     ELSE LET i == d.items[o]
              r == Object_set(items[i].object, blocks[i], subIdx, data, size, ext)
          IN [ret |-> r.ret, mem |-> [blocks EXCEPT ![i] = r.mem],
              calls |-> r.calls, fault |-> r.fault]

\* Dictionary::read(address, subIdx, data, size)
Dictionary_read(d, blocks, address, subIdx, buf, size) ==
  LET o == Dictionary_get(d, address)
  IN IF o = 0 THEN GetResult(ObjectNotFound, buf)
     ELSE Object_get(items[d.items[o]].object, blocks[d.items[o]], subIdx, buf, size)

-----------------------------------------------------------------------------
(* Dictionary::find / query, eobject.cpp 157-220, eobject.hpp 611-621 *)

\* the least index k..n whose name compares equal to name, or n + 1
RECURSIVE scan(_, _, _, _)
scan(names, name, k, n) ==
  IF k > n THEN n + 1
  ELSE IF sv_eq(names[k], name) THEN k ELSE scan(names, name, k + 1, n)

\* Array::Info::find: the 0-based index of the first equal name, or nelem
Array_find(info, name) == scan(info.names, name, 1, info.nelem) - 1

\* Record::Info::find returning the last field of that name instead of the first
Record_find_last(info, name) ==
  LET rev == [k \in 1..info.nelem |-> info.fields[info.nelem + 1 - k].name]
      r == scan(rev, name, 1, info.nelem)
  IN IF r > info.nelem THEN info.nelem ELSE info.nelem - r

\* Record::Info::find: the iterator as 0-based index, nelem for end()
Record_find(info, name) ==
  scan([k \in 1..info.nelem |-> info.fields[k].name], name, 1, info.nelem) - 1

\* Dictionary::find: the catalogue index of the first stored item of that name,
\* 0 for nullptr
Dictionary_find(name) ==
  LET n == Len(dict.items)
      r == scan([k \in 1..n |-> items[dict.items[k]].object.name], name, 1, n)
  IN IF r > n THEN 0 ELSE dict.items[r]

\* Dictionary::Query as constructed: info(nullptr), subIdx(-1)
MkQuery(oname, sname) ==
  [object_name |-> oname, subobject_name |-> sname, item |-> 0, info |-> NullRef, subIdx |-> -1]

\* Dictionary::Query::Query(str)
Query_ctor(str) ==
  LET t1 == next_token(str, "issep")
      t2 == next_token(t1.str, "issep")
  IN MkQuery(trim_prefix(t1.token, "isspace"), trim_suffix(t2.token, "isspace"))

\* Dictionary::query(q): the result and q afterwards
Dictionary_query(q0) ==
  LET item == Dictionary_find(q0.object_name)
      q1 == [q0 EXCEPT !.item = item]
  IN IF item # 0
       THEN IF q1.subobject_name # <<>>
              THEN LET info == items[item].object.info
                   IN CASE info.otype = "Record" ->
                             LET f == Record_find(info, q1.subobject_name)
                             IN IF f # info.nelem
                                  THEN [ret |-> OK,
                                        q |-> [q1 EXCEPT !.info = Ref("field", item, f + 1),
                                                         !.subIdx = f + 1]]
                                  ELSE [ret |-> FieldNotFound, q |-> q1]
                        [] info.otype = "Array" ->
                             LET subIdx == Array_find(info, q1.subobject_name) + 1
                                 q2 == [q1 EXCEPT !.subIdx = subIdx, !.info = Ref("object", item, 0)]
                             IN IF subIdx # info.nelem
                                  THEN [ret |-> OK, q |-> q2]
                                  ELSE [ret |-> FieldNotFound, q |-> q2]
                        [] OTHER -> [ret |-> FieldNotFound, q |-> q1]
              ELSE [ret |-> OK, q |-> [q1 EXCEPT !.info = Ref("object", item, 0)]]
       ELSE [ret |-> ObjectNotFound, q |-> q1]

-----------------------------------------------------------------------------
(* Inputs of the calls *)

SubIdxs == (0..MaxSubIdx) \cup {255}

\* the bytes handed to set; size is their length
SetInputs == {
  <<>>, <<1>>, <<2>>, <<5>>, <<6>>, <<200>>,
  Bytes(85, 2), Bytes(200, 2), Bytes(-40, 2), Bytes(-41, 2), Bytes(125, 2), Bytes(126, 2),
  <<97, 98>>, <<97, 98, 0>>, <<97, 98, 99>>, <<3, 0, 0, 0>>, <<97, 98, 99, 0>> }

\* what the external setter bound into set_wrapper may return
ExtResults == {OK, UnableToSet}

\* the contents of the caller's buffer before a get
Fills == {0, 170}
FreshBuffer(fill) == [i \in 1..BufLen |-> fill]

\* the contents of the storage blocks at start
InitFills == {16, 48}

QueryObjectNames == {items[i].object.name : i \in 1..count} \cup {S.nope, S.STATUS}
QuerySubNames ==
  {S.empty, S.temp, S.flags, S.TEMP, S.kp, S.ki, S.KP, S.go, S.stop,
   S.a, S.b, S.c, S.C, S.x, S.y, S.nope}

\* the texts a Query is constructed from: every text of up to MaxTextLen
\* characters over a letter, the three separators and a blank, and the texts
\* made of an object name, a separator part and a sub-name with blanks around
TextAlphabet == {97, 46, 58, 47, 32}
ShortTexts == UNION {[1..n -> TextAlphabet] : n \in 0..MaxTextLen}
TextPads == {<<>>, <<32>>}
TextObjectNames == {S.status, S.cfg, S.gains, S.speed, S.nope}
TextSeparators == {<<>>, <<46>>, <<58>>, <<47>>, <<46, 46>>, <<32, 46, 32>>, <<9, 58>>, <<47, 32>>}
TextSubNames == {S.empty, S.temp, S.kp, S.a, S.nope}
LongTexts ==
  {p1 \o o \o sep \o sub \o p2 :
     p1 \in TextPads, o \in TextObjectNames, sep \in TextSeparators,
     sub \in TextSubNames, p2 \in TextPads}
QueryTexts == ShortTexts \cup LongTexts

\* the arrays of items handed to the dictionary constructor: every array of 1
\* to MaxItems items out of a pool, in every order, repeats included
DictPool == {1, 4, 8, 9, 10}
DictInputs == UNION {[1..n -> DictPool] : n \in 1..MaxItems}
\* the addresses looked up, present in the pool and absent
DictAddresses == {0, 4096, 4099, 5000, 6144, 6145, 8192, 65535}
DictSubIdxs == {0, 1}
DictSetInputs == {<<2>>, Bytes(85, 2)}
DictNames == {S.speed, S.STATUS, S.gains, S.nope}
DictSubNames == {S.empty, S.temp}

-----------------------------------------------------------------------------
(* The state machine: calls made on the Object items[cur].object and on    *)
(* the dictionary                                                          *)

NoFieldInfo == MkFieldInfo(NullRef, NullRef, 0, 0)
NoQuery == MkQuery(<<>>, <<>>)

\* nothing is being built, iterated or typed
NoBuild == [stage |-> "none"]
NoIter == [stage |-> "none"]
NoConsole == [stage |-> "none"]

Call(op, subIdx, data, size, ext, calls, fault) ==
  [op |-> op, subIdx |-> subIdx, data |-> data, size |-> size, ext |-> ext,
   premem |-> mem[cur], calls |-> calls, fault |-> fault]

Init ==
  /\ cur \in 1..count
  /\ \E fill \in InitFills : mem = [i \in 1..count |-> [a \in Addr |-> (fill + a) % 256]]
  /\ buffer = <<>>
  /\ ret = 0
  /\ call = [op |-> "none", subIdx |-> 0, data |-> <<>>, size |-> 0, ext |-> OK,
             premem |-> mem[cur], calls |-> <<>>, fault |-> FALSE]
  /\ finfo = NoFieldInfo
  /\ q = NoQuery
  /\ build = NoBuild
  /\ iter = NoIter
  /\ con = NoConsole
  /\ dict = make_dictionary([k \in 1..count |-> k])

\* object.set(subIdx, data, size)
Set ==
  /\ call.op = "none"
  /\ \E subIdx \in SubIdxs, data \in SetInputs, ext \in ExtResults :
    LET r == Object_set(items[cur].object, mem[cur], subIdx, data, Len(data), ext)
    IN /\ mem' = [mem EXCEPT ![cur] = r.mem]
       /\ ret' = r.ret
       /\ call' = Call("set", subIdx, data, Len(data), ext, r.calls, r.fault)
       /\ buffer' = <<>>
       /\ finfo' = NoFieldInfo
       /\ q' = NoQuery
       /\ UNCHANGED <<cur, dict, build, iter, con>>

\* object.get(subIdx, buffer, size)
Get ==
  /\ call.op = "none"
  /\ \E subIdx \in SubIdxs, size \in 0..BufLen, fill \in Fills :
    LET r == Object_get(items[cur].object, mem[cur], subIdx, FreshBuffer(fill), size)
    IN /\ buffer' = r.buffer
       /\ ret' = r.ret
       /\ call' = Call("get", subIdx, FreshBuffer(fill), size, OK, <<>>, FALSE)
       /\ finfo' = NoFieldInfo
       /\ q' = NoQuery
       /\ UNCHANGED <<cur, mem, dict, build, iter, con>>

\* object.get(buffer, size)
GetAll ==
  /\ call.op = "none"
  /\ \E size \in 0..BufLen, fill \in Fills :
    LET r == Object_get_all(items[cur].object, mem[cur], FreshBuffer(fill), size)
    IN /\ buffer' = r.buffer
       /\ ret' = r.ret
       /\ call' = Call("get_all", 0, FreshBuffer(fill), size, OK, <<>>, FALSE)
       /\ finfo' = NoFieldInfo
       /\ q' = NoQuery
       /\ UNCHANGED <<cur, mem, dict, build, iter, con>>

\* object.info(subIdx)
Info ==
  /\ call.op = "none"
  /\ \E subIdx \in SubIdxs :
    /\ finfo' = Object_info(cur, subIdx)
    /\ ret' = 0
    /\ call' = Call("info", subIdx, <<>>, 0, OK, <<>>, FALSE)
    /\ buffer' = <<>>
    /\ q' = NoQuery
    /\ UNCHANGED <<cur, mem, dict, build, iter, con>>

\* dictionary.query(q) on a Query holding the two names
Query ==
  /\ call.op = "none"
  /\ \E oname \in QueryObjectNames, sname \in QuerySubNames :
    LET r == Dictionary_query(MkQuery(oname, sname))
    IN /\ q' = r.q
       /\ ret' = r.ret
       /\ call' = Call("query", 0, <<>>, 0, OK, <<>>, FALSE)
       /\ buffer' = <<>>
       /\ finfo' = NoFieldInfo
       /\ UNCHANGED <<cur, mem, dict, build, iter, con>>

\* dictionary.find(name)
Find ==
  /\ call.op = "none"
  /\ \E name \in QueryObjectNames :
    /\ q' = [MkQuery(name, <<>>) EXCEPT !.item = Dictionary_find(name)]
    /\ ret' = 0
    /\ call' = Call("find", 0, name, Len(name), OK, <<>>, FALSE)
    /\ buffer' = <<>>
    /\ finfo' = NoFieldInfo
    /\ UNCHANGED <<cur, mem, dict, build, iter, con>>

\* Query q(text); dictionary.query(q)
QueryText ==
  /\ call.op = "none"
  /\ \E text \in QueryTexts :
    LET r == Dictionary_query(Query_ctor(text))
    IN /\ q' = r.q
       /\ ret' = r.ret
       /\ call' = Call("query_text", 0, text, Len(text), OK, <<>>, FALSE)
       /\ buffer' = <<>>
       /\ finfo' = NoFieldInfo
       /\ UNCHANGED <<cur, mem, dict, build, iter, con>>

\* the call record of a call made on the dictionary by address; premem is the
\* storage of every object before the call
DictCall(op, address, subIdx, data, size, ext, calls, fault) ==
  [op |-> op, address |-> address, subIdx |-> subIdx, data |-> data, size |-> size,
   ext |-> ext, premem |-> mem, calls |-> calls, fault |-> fault]

\* dictionary.get(address)
DictGet ==
  /\ call.op = "none"
  /\ \E address \in DictAddresses :
    LET o == Dictionary_get(dict, address)
    IN /\ ret' = o
       /\ call' = DictCall("dict_get", address, 0, <<>>, 0, OK, <<>>, FALSE)
       /\ buffer' = <<>>
       /\ finfo' = NoFieldInfo
       /\ q' = NoQuery
       /\ UNCHANGED <<cur, mem, dict, build, iter, con>>

\* dictionary.read(address, subIdx, buffer, size)
Read ==
  /\ call.op = "none"
  /\ \E address \in DictAddresses, subIdx \in DictSubIdxs, size \in {1, BufLen}, fill \in Fills :
    LET r == Dictionary_read(dict, mem, address, subIdx, FreshBuffer(fill), size)
    IN /\ buffer' = r.buffer
       /\ ret' = r.ret
       /\ call' = DictCall("read", address, subIdx, FreshBuffer(fill), size, OK, <<>>, FALSE)
       /\ finfo' = NoFieldInfo
       /\ q' = NoQuery
       /\ UNCHANGED <<cur, mem, dict, build, iter, con>>

\* dictionary.write(address, subIdx, data, size)
Write ==
  /\ call.op = "none"
  /\ \E address \in DictAddresses, subIdx \in DictSubIdxs, data \in DictSetInputs :
    LET r == Dictionary_write(dict, mem, address, subIdx, data, Len(data), OK)
    IN /\ mem' = r.mem
       /\ ret' = r.ret
       /\ call' = DictCall("write", address, subIdx, data, Len(data), OK, r.calls, r.fault)
       /\ buffer' = <<>>
       /\ finfo' = NoFieldInfo
       /\ q' = NoQuery
       /\ UNCHANGED <<cur, dict, build, iter, con>>

\* dictionary.find(name) and dictionary.query(q) on the dictionary as built
DictQuery ==
  /\ call.op = "none"
  /\ \E oname \in DictNames, sname \in DictSubNames :
    LET r == Dictionary_query(MkQuery(oname, sname))
    IN /\ q' = r.q
       /\ ret' = r.ret
       /\ call' = Call("query", 0, oname, Len(oname), OK, <<>>, FALSE)
       /\ buffer' = <<>>
       /\ finfo' = NoFieldInfo
       /\ UNCHANGED <<cur, mem, dict, build, iter, con>>

\* the caller has taken the result: the next call starts from the storage alone
Return ==
  /\ call.op # "none"
  /\ call' = [op |-> "none", subIdx |-> 0, data |-> <<>>, size |-> 0, ext |-> OK,
              premem |-> mem[cur], calls |-> <<>>, fault |-> FALSE]
  /\ ret' = 0
  /\ buffer' = <<>>
  /\ finfo' = NoFieldInfo
  /\ q' = NoQuery
  /\ UNCHANGED <<cur, mem, dict, build, iter, con>>

Next == Set \/ Get \/ GetAll \/ Info \/ Return

\* calls on one Object of the dictionary
Spec == Init /\ [][Next]_vars

\* name queries on the dictionary: they read no storage
InitQuery ==
  /\ cur = 1
  /\ mem = [i \in 1..count |-> [a \in Addr |-> 0]]
  /\ buffer = <<>>
  /\ ret = 0
  /\ call = [op |-> "none", subIdx |-> 0, data |-> <<>>, size |-> 0, ext |-> OK,
             premem |-> mem[cur], calls |-> <<>>, fault |-> FALSE]
  /\ finfo = NoFieldInfo
  /\ q = NoQuery
  /\ build = NoBuild
  /\ iter = NoIter
  /\ con = NoConsole
  /\ dict = make_dictionary([k \in 1..count |-> k])

NextQuery == Query \/ Find \/ QueryText \/ Return

SpecQuery == InitQuery /\ [][NextQuery]_vars

\* the dictionary built by its constructor from an array of items, then
\* looked up, read and written by address and by name
InitDict ==
  /\ \E objects \in DictInputs : dict = make_dictionary(objects)
  /\ cur = dict.items[1]
  /\ mem = [i \in 1..count |-> [a \in Addr |-> (16 + a) % 256]]
  /\ buffer = <<>>
  /\ ret = 0
  /\ call = [op |-> "none", subIdx |-> 0, data |-> <<>>, size |-> 0, ext |-> OK,
             premem |-> mem[cur], calls |-> <<>>, fault |-> FALSE]
  /\ finfo = NoFieldInfo
  /\ q = NoQuery
  /\ build = NoBuild
  /\ iter = NoIter
  /\ con = NoConsole

NextDict == DictGet \/ Read \/ Write \/ DictQuery \/ Return

SpecDict == InitDict /\ [][NextDict]_vars

\* the record "status" at address 0x2000 resolved by name, then set and read
StatusItem == Dictionary_get(TDictionary([k \in 1..count |-> k]), 8192)

InitStatus ==
  /\ dict = make_dictionary([k \in 1..count |-> k])
  /\ cur = dict.items[StatusItem]
  /\ \E fill \in InitFills : mem = [i \in 1..count |-> [a \in Addr |-> (fill + a) % 256]]
  /\ buffer = <<>>
  /\ ret = 0
  /\ call = [op |-> "none", subIdx |-> 0, data |-> <<>>, size |-> 0, ext |-> OK,
             premem |-> mem[cur], calls |-> <<>>, fault |-> FALSE]
  /\ finfo = NoFieldInfo
  /\ q = NoQuery
  /\ build = NoBuild
  /\ iter = NoIter
  /\ con = NoConsole

NextStatus == Query \/ Set \/ Get \/ Return

SpecStatus == InitStatus /\ [][NextStatus]_vars

-----------------------------------------------------------------------------
(* Building a Record Info: Record::fields().field<...>(...)... and then     *)
(* Record::make_info, eobject.hpp 839-966.  A declaration is the template   *)
(* arguments T and offset of one field<> call and its name; a failed        *)
(* static_assert ends the build                                             *)

BuildTypes == {"U8", "I16"}
BuildOffsets == 0..4
BuildNames == {S.a, S.b}
Declarations ==
  UNION {[1..n -> [T : BuildTypes, offset : BuildOffsets, name : BuildNames]] : n \in 1..MaxFields}

InitBuild ==
  /\ cur = 1
  /\ mem = [i \in 1..count |-> [a \in Addr |-> 0]]
  /\ buffer = <<>>
  /\ ret = 0
  /\ call = [op |-> "none", subIdx |-> 0, data |-> <<>>, size |-> 0, ext |-> OK,
             premem |-> mem[cur], calls |-> <<>>, fault |-> FALSE]
  /\ finfo = NoFieldInfo
  /\ q = NoQuery
  /\ dict = make_dictionary([k \in 1..count |-> k])
  /\ \E decls \in Declarations :
       build = [stage |-> "fields", decls |-> decls, k |-> 0, fl |-> FieldList0]
  /\ iter = NoIter
  /\ con = NoConsole

\* fields.field<DataClass, T, member, offset, min, max>(perm, name)
BuildField ==
  /\ build.stage = "fields"
  /\ build.k < Len(build.decls)
  /\ LET d == build.decls[build.k + 1]
         fl == FieldList_field(build.fl,
                 FieldInfo(d.T, d.name, d.offset, set_default_fn(d.T, d.offset, 0, 0), 0, 0))
     IN build' = [build EXCEPT !.k = build.k + 1, !.fl = fl,
                               !.stage = IF fl.ok THEN "fields" ELSE "rejected"]
  /\ UNCHANGED <<cur, mem, buffer, ret, call, finfo, q, dict, iter, con>>

\* Record::make_info(perm, fields)
BuildMakeInfo ==
  /\ build.stage = "fields"
  /\ build.k = Len(build.decls)
  /\ build' = [stage |-> "made", decls |-> build.decls, k |-> build.k, fl |-> build.fl,
               info |-> Record_make_info(build.fl, set_data_fn)]
  /\ UNCHANGED <<cur, mem, buffer, ret, call, finfo, q, dict, iter, con>>

NextBuild == BuildField \/ BuildMakeInfo

SpecBuild == InitBuild /\ [][NextBuild]_vars

-----------------------------------------------------------------------------
(* Object::Field, Object::begin / end (eobject.hpp 409-464) and the range   *)
(* for of operator<<(stream&, const Object&) with print_field on each Field *)
(* (console.cpp 80-118).  What is written to the stream is not kept         *)

\* object.end() one past the last element
Object_end_past(obj) == obj.info.nelem + 1

\* object.begin() and object.end(): the id of the Field returned
Object_begin(obj) == 0
Object_end(obj) == obj.info.nelem

\* Field::info, Field::get_to and Field::set_from
Field_info(i, id) == Object_info(i, id)
Field_get_to(i, block, id, buf, size) == Object_get(items[i].object, block, id, buf, size)
Field_set_from(i, block, id, buf, size, ext) ==
  Object_set(items[i].object, block, id, buf, size, ext)

\* the capacities handed to Field::get_to
FieldSizes == {1, BufLen}

InitIter ==
  /\ cur \in 1..count
  /\ mem = [i \in 1..count |-> [a \in Addr |-> (16 + a) % 256]]
  /\ buffer = <<>>
  /\ ret = 0
  /\ call = [op |-> "none", subIdx |-> 0, data |-> <<>>, size |-> 0, ext |-> OK,
             premem |-> mem[cur], calls |-> <<>>, fault |-> FALSE]
  /\ finfo = NoFieldInfo
  /\ q = NoQuery
  /\ dict = make_dictionary([k \in 1..count |-> k])
  /\ build = NoBuild
  /\ iter = NoIter
  /\ con = NoConsole

\* for (auto& value : object): it = object.begin(), end = object.end()
IterBegin ==
  /\ iter.stage = "none"
  /\ iter' = [stage |-> "test", id |-> Object_begin(items[cur].object),
              end |-> Object_end(items[cur].object), visited |-> <<>>, incs |-> 0,
              op |-> "none", size |-> 0, fill |-> 0, nullname |-> FALSE]
  /\ UNCHANGED <<cur, mem, buffer, ret, call, finfo, q, dict, build, con>>

\* it != end, and value = *it when it holds
IterTest ==
  /\ iter.stage = "test"
  /\ iter' = IF iter.id # iter.end
               THEN [iter EXCEPT !.stage = "body", !.visited = Append(iter.visited, iter.id)]
               ELSE [iter EXCEPT !.stage = "done"]
  /\ buffer' = <<>>
  /\ ret' = 0
  /\ finfo' = NoFieldInfo
  /\ UNCHANGED <<cur, mem, call, q, dict, build, con>>

\* value.info()
IterInfo ==
  /\ iter.stage = "body"
  /\ finfo' = Field_info(cur, iter.id)
  /\ iter' = [iter EXCEPT !.op = "info", !.size = 0, !.fill = 0]
  /\ buffer' = <<>>
  /\ ret' = 0
  /\ UNCHANGED <<cur, mem, call, q, dict, build, con>>

\* value.get_to(buffer, size)
IterGetTo ==
  /\ iter.stage = "body"
  /\ \E size \in FieldSizes, fill \in Fills :
       LET r == Field_get_to(cur, mem[cur], iter.id, FreshBuffer(fill), size)
       IN /\ buffer' = r.buffer
          /\ ret' = r.ret
          /\ iter' = [iter EXCEPT !.op = "get_to", !.size = size, !.fill = fill]
  /\ finfo' = NoFieldInfo
  /\ UNCHANGED <<cur, mem, call, q, dict, build, con>>

\* value.set_from(buf, size), also on the Field that begin() and ++ return
\* before it is compared with end.  A store through a null data pointer is
\* undefined: it faults and ends the loop, or the loop goes on
IterSetFrom ==
  /\ iter.stage \in {"test", "body"}
  /\ \E data \in SetInputs, ext \in ExtResults :
       \E r \in {Field_set_from(cur, mem[cur], iter.id, data, Len(data), ext)} :
          /\ mem' = [mem EXCEPT ![cur] = r.mem]
          /\ ret' = r.ret
          /\ \/ iter' = [iter EXCEPT !.op = "set_from", !.size = Len(data), !.fill = 0]
             \/ /\ r.fault
                /\ iter' = [iter EXCEPT !.op = "set_from", !.size = Len(data), !.fill = 0,
                                        !.stage = "fault"]
  /\ buffer' = <<>>
  /\ finfo' = NoFieldInfo
  /\ UNCHANGED <<cur, call, q, dict, build, con>>

\* print_field(so, value): info(), *info.name, get_to(buffer, sizeof(buffer)).
\* The 64-byte buffer is BufLen bytes here, more than any element takes.
\* *info.name through a null name is undefined: the read faults and ends the
\* loop, or yields some text and print_field goes on
IterPrintField ==
  /\ iter.stage = "body"
  /\ LET info == Field_info(cur, iter.id)
         r == Field_get_to(cur, mem[cur], iter.id, FreshBuffer(0), BufLen)
     IN /\ finfo' = info
        /\ IF FieldInfo_valid(info)
             THEN /\ iter' = [iter EXCEPT !.op = "print", !.size = BufLen, !.fill = 0]
                  /\ buffer' = r.buffer
                  /\ ret' = r.ret
             ELSE \/ /\ iter' = [iter EXCEPT !.op = "print", !.size = BufLen, !.fill = 0,
                                              !.nullname = TRUE]
                     /\ buffer' = r.buffer
                     /\ ret' = r.ret
                  \/ /\ iter' = [iter EXCEPT !.op = "print", !.stage = "fault",
                                              !.nullname = TRUE]
                     /\ buffer' = <<>>
                     /\ ret' = 0
  /\ UNCHANGED <<cur, mem, call, q, dict, build, con>>

\* ++it
IterNext ==
  /\ iter.stage = "body"
  /\ iter' = [iter EXCEPT !.stage = "test", !.id = (iter.id + 1) % 256,
                          !.incs = iter.incs + 1, !.op = "none", !.size = 0, !.fill = 0]
  /\ buffer' = <<>>
  /\ ret' = 0
  /\ finfo' = NoFieldInfo
  /\ UNCHANGED <<cur, mem, call, q, dict, build, con>>

NextIter ==
  IterBegin \/ IterTest \/ IterInfo \/ IterGetTo \/ IterSetFrom \/ IterPrintField \/ IterNext

SpecIter == InitIter /\ [][NextIter]_vars

-----------------------------------------------------------------------------
(* eformat::parse of integers, eformat.cpp 315-413, and parse_value /       *)
(* parse_string / parse, console.cpp 121-161.  A view is read together with *)
(* the characters that follow it in memory (behind): the loops of parse     *)
(* look at *(++c) before comparing c with end, and parse(int32_t&) reads *c *)
(* without comparing at all.  A uint32_t is the pair <<low, high>> of its   *)
(* 16-bit halves, every other integer is its value                          *)

\* *c for c at offset k of the view; offset Len(in) is in.end(), and 0 stands
\* behind the characters given
CharAt(in, behind, k) ==
  IF k < Len(in) THEN in[k + 1]
  ELSE IF k - Len(in) < Len(behind) THEN behind[k - Len(in) + 1]
  ELSE 0

\* ParseStatus, the value parsed, whether the referenced value was assigned,
\* and whether the program was stopped on the way
ParseResult(status, value, written, fault) ==
  [status |-> status, value |-> value, written |-> written, fault |-> fault]

\* what the build makes of the overflow of a signed multiplication, which is
\* undefined: the two's complement result, or a trap
SignedOverflows == {"wrap", "trap"}

\* the while loop of parse(string_view&, uint32_t&), c at offset k
RECURSIVE parse_u32_loop(_, _, _, _)
parse_u32_loop(in, behind, k, value) ==
  IF k # Len(in) /\ isdigit(CharAt(in, behind, k + 1))
    THEN LET v == CharAt(in, behind, k + 1) - 48
             \* value * 10U for value <= UINT32_MAX / 10
             low == value[1] * 10
             times10 == <<low % 65536, value[2] * 10 + (low \div 65536)>>
             \* value + v for value <= UINT32_MAX - v
             sum == <<(times10[1] + v) % 65536, times10[2] + ((times10[1] + v) \div 65536)>>
         IN \* value > UINT32_MAX / 10U, which is 6553 * 65536 + 39321
            IF value[2] > 6553 \/ (value[2] = 6553 /\ value[1] > 39321)
              THEN ParseResult("Overflow", value, TRUE, FALSE)
            \* value > UINT32_MAX - v after value = value * 10U
            ELSE IF times10[2] = 65535 /\ times10[1] > 65535 - v
              THEN ParseResult("Overflow", times10, TRUE, FALSE)
            ELSE parse_u32_loop(in, behind, k + 1, sum)
    ELSE ParseResult("OK", value, TRUE, FALSE)

\* parse(string_view& in, uint32_t& value)
parse_u32(in, behind) ==
  IF 0 # Len(in) /\ isdigit(CharAt(in, behind, 0))
    THEN parse_u32_loop(in, behind, 0, <<CharAt(in, behind, 0) - 48, 0>>)
    ELSE ParseResult("NotMatched", <<0, 0>>, FALSE, FALSE)

\* the while loop of parse(string_view&, int32_t&), c at offset k.  Nothing
\* guards value * 10 for a negative value: below INT32_MIN / 10 it overflows
RECURSIVE parse_i32_loop(_, _, _, _, _)
parse_i32_loop(in, behind, k, value, ub) ==
  IF k < Len(in) /\ isdigit(CharAt(in, behind, k + 1))
    THEN LET v == CharAt(in, behind, k + 1) - 48
             \* value * 10 modulo 2^32 as an int32_t, by 16-bit halves
             low == (value % 65536) * 10
             high == ((value \div 65536) * 10 + (low \div 65536)) % 65536
             wrapped == (IF high >= 32768 THEN high - 65536 ELSE high) * 65536 + (low % 65536)
             times10 == IF value < -214748364 THEN wrapped ELSE value * 10
         IN IF value > 214748364 THEN ParseResult("Overflow", value, TRUE, FALSE)
            ELSE IF value < -214748364 /\ ub = "trap"
              THEN ParseResult("OK", value, TRUE, TRUE)
            ELSE IF times10 > 2147483647 - v THEN ParseResult("Overflow", times10, TRUE, FALSE)
            ELSE parse_i32_loop(in, behind, k + 1, times10 + v, ub)
    ELSE ParseResult("OK", value, TRUE, FALSE)

\* parse(string_view& in, int32_t& value): *c is read whatever in.end() is,
\* and the digits after the first are added to the value whatever its sign
parse_i32(in, behind, ub) ==
  LET c0 == CharAt(in, behind, 0)
      sign == IF c0 = 45 THEN -1 ELSE IF c0 = 43 THEN 1 ELSE 0
      k == IF sign = 0 THEN 0 ELSE 1
  IN IF isdigit(CharAt(in, behind, k))
       THEN parse_i32_loop(in, behind, k,
              (IF sign = 0 THEN 1 ELSE sign) * (CharAt(in, behind, k) - 48), ub)
       ELSE ParseResult("NotMatched", 0, FALSE, FALSE)

\* parse into uint8_t / uint16_t through a uint32_t temporary: value = temp
\* when temp <= max
parse_unsigned(r, max) ==
  IF r.status # "OK" THEN ParseResult(r.status, 0, FALSE, r.fault)
  ELSE IF r.value[2] > 0 \/ r.value[1] > max THEN ParseResult("Overflow", 0, FALSE, FALSE)
  ELSE ParseResult("OK", r.value[1], TRUE, FALSE)

\* parse into int8_t / int16_t through an int32_t temporary that is tested
\* against the upper limit only: value = temp keeps the low bytes of temp
parse_signed(T, r, max) ==
  IF r.status # "OK" \/ r.fault THEN ParseResult(r.status, 0, FALSE, r.fault)
  ELSE IF r.value > max THEN ParseResult("Overflow", 0, FALSE, FALSE)
  ELSE ParseResult("OK", Decode(T, Bytes(r.value, SizeOf(T))), TRUE, FALSE)

\* eformat::parse(str, T&)
eformat_parse(T, in, behind, ub) ==
  CASE T = "U8" -> parse_unsigned(parse_u32(in, behind), 255)
    [] T = "U16" -> parse_unsigned(parse_u32(in, behind), 65535)
    [] T = "U32" -> parse_u32(in, behind)
    [] T = "I8" -> parse_signed(T, parse_i32(in, behind, ub), 127)
    [] T = "I16" -> parse_signed(T, parse_i32(in, behind, ub), 32767)
    [] T = "I32" -> parse_i32(in, behind, ub)

\* the object representation of the value v of type T (little-endian)
Encode(T, v) ==
  IF T = "U32" THEN Bytes(v[1], 2) \o Bytes(v[2], 2) ELSE Bytes(v, SizeOf(T))

\* memcpy(data, bytes, n) into the console's buffer
Fill(data, bytes, n) == [i \in 1..Len(data) |-> IF i <= n THEN bytes[i] ELSE data[i]]

\* what parse leaves: the Error, the buffer and size, and whether the program
\* was stopped
Parsed(e, data, size, fault) == [e |-> e, buffer |-> data, size |-> size, fault |-> fault]

\* parse_value<T>(str, data, size): eformat::parse assigns through the buffer
parse_value(T, str, behind, data, size, ub) ==
  IF SizeOf(T) > size THEN Parsed(ParamTooLong, data, size, FALSE)
  ELSE LET r == eformat_parse(T, str, behind, ub)
       IN Parsed(IF r.status = "OK" THEN OK ELSE DataTypeError,
                 IF r.written THEN Fill(data, Encode(T, r.value), SizeOf(T)) ELSE data,
                 SizeOf(T), r.fault)

\* parse_string(str, data, size): str.size() - 2 is a size_t
parse_string(str, data, size) ==
  IF Len(str) < 2 \/ Len(str) - 2 > size THEN Parsed(ParamTooLong, data, size, FALSE)
  ELSE IF str[1] = 34 /\ str[Len(str)] = 34
    THEN Parsed(OK, Fill(data, SubSeq(str, 2, Len(str) - 1), Len(str) - 2), Len(str) - 2,
                FALSE)
    ELSE Parsed(DataTypeError, data, Len(str) - 2, FALSE)

\* parse(buffer, size, vstring, type)
parse(data, size, vstring, behind, type, ub) ==
  CASE type \in {"U8", "U16", "U32", "I8", "I16", "I32"} ->
         parse_value(type, vstring, behind, data, size, ub)
    [] type = "String" -> parse_string(vstring, data, size)
    [] OTHER -> Parsed(DataTypeError, data, size, FALSE)

-----------------------------------------------------------------------------
(* Console::command_set, console.cpp 231-267.  What the command writes to   *)
(* the stream is kept as `shown`: the usage text, the "Must select          *)
(* subobject" text, or the Error e                                          *)

\* sizeof(buffer) of command_set
ConsoleBufferSize == 64

\* no Error was computed at that step
NotRun == 1

\* the outcome of one command: what was shown, the results of query, parse
\* and set (NotRun when the step was not reached), the subIdx and size set
\* was called with, and the storage afterwards
SetOutcome(shown, e, query, parsed, set, subIdx, size, blocks, item, fault) ==
  [shown |-> shown, e |-> e, query |-> query, parsed |-> parsed, set |-> set,
   subIdx |-> subIdx, size |-> size, mem |-> blocks, item |-> item, fault |-> fault]

\* uint8_t buffer[64] of command_set has no initialiser: until parse writes a
\* byte of it, the byte is indeterminate
Indeterminate == -1
Uninitialised == [i \in 1..ConsoleBufferSize |-> Indeterminate]

\* what set may find in the size bytes of the buffer it is handed: each byte
\* parse wrote as written, each indeterminate byte with any value.  A setter
\* handed more bytes than the object has returns ParamTooLong, ReadOnly or a
\* field error before it reads one of them, and the bytes stay as they are
Reads(buf, size, object) ==
  IF size > object.info.data_size
    THEN {buf}
    ELSE LET open == {i \in 1..size : buf[i] = Indeterminate}
         IN {[i \in 1..Len(buf) |-> IF i \in open THEN g[i] ELSE buf[i]] :
               g \in [open -> 0..255]}

\* Console::command_set(line): `behind` is what follows the line in memory.
\* The value is the set of outcomes the command can have: one for each thing
\* a signed overflow in parse may do and each content set may find in the
\* bytes of buffer that parse left unwritten
Console_command_set(line0, behind, blocks, ext) ==
  LET t == next_token(line0, "isequal")
      name == trim_suffix(t.token, "isspace")
      line == trim_prefix(t.str, "isspace")
      \* object.set(subIdx, buffer, size) and so << e
      set(r, p, object, subIdx) ==
        {SetOutcome("error", w.ret, r.ret, p.e, w.ret, subIdx, p.size,
                    [blocks EXCEPT ![r.q.item] = w.mem], r.q.item, w.fault) :
           w \in {Object_set(object, blocks[r.q.item], subIdx, data, p.size, ext) :
                    data \in Reads(p.buffer, p.size, object)}}
      \* parse(buffer, size, line, query.info()->type) and if(Error::OK == e)
      parsed(r, object) ==
        UNION
          {IF p.fault
             THEN {SetOutcome("none", NotRun, r.ret, NotRun, NotRun, 0, 0, blocks, r.q.item,
                              TRUE)}
           ELSE IF p.e = OK /\ r.q.subIdx < 0 /\ object.info.otype # "Variable"
             THEN {SetOutcome("must_select", NotRun, r.ret, p.e, NotRun, 0, 0, blocks,
                              r.q.item, FALSE)}
             ELSE set(r, p, object,
                      (IF p.e = OK /\ r.q.subIdx < 0 THEN 0 ELSE r.q.subIdx) % 256) :
             p \in {parse(Uninitialised, ConsoleBufferSize, line, behind,
                          Deref(r.q.info).type, ub) : ub \in SignedOverflows}}
  IN IF line = <<>>
       THEN {SetOutcome("usage", NotRun, NotRun, NotRun, NotRun, 0, 0, blocks, 0, FALSE)}
       ELSE
         \* dictionary_.query(query)
         UNION
           {IF r.ret # OK
              THEN {SetOutcome("error", r.ret, r.ret, NotRun, NotRun, 0, 0, blocks,
                               r.q.item, FALSE)}
              ELSE parsed(r, items[r.q.item].object) :
              r \in {Dictionary_query(Query_ctor(name))}}

\* the lines handed to command_set: a name, '=' and a value, with and without
\* blanks, and a name alone
Dotted(o, sub) == o \o <<46>> \o sub
SetNames ==
  {S.speed, S.status, Dotted(S.status, S.temp), Dotted(S.status, S.flags), S.gains,
   Dotted(S.gains, S.a), S.label, S.nope, Dotted(S.status, S.nope)}
\* "3", "x", "85", "-12", "300", "-3000000000", "\"ab\"" and "ab"
SetValues ==
  {<<51>>, <<120>>, <<56, 53>>, <<45, 49, 50>>, <<51, 48, 48>>,
   <<45, 51, 48, 48, 48, 48, 48, 48, 48, 48, 48>>, <<34, 97, 98, 34>>, <<97, 98>>}
SetLines ==
  {n \o <<61>> \o v : n \in SetNames, v \in SetValues}
    \cup {n \o <<32, 61, 32>> \o v : n \in {S.speed, S.status}, v \in SetValues}
    \cup {n \o <<61>> : n \in SetNames} \cup SetNames

InitSet ==
  /\ cur = 1
  /\ \E fill \in InitFills : mem = [i \in 1..count |-> [a \in Addr |-> (fill + a) % 256]]
  /\ buffer = <<>>
  /\ ret = 0
  /\ call = [op |-> "none", subIdx |-> 0, data |-> <<>>, size |-> 0, ext |-> OK,
             premem |-> mem[cur], calls |-> <<>>, fault |-> FALSE]
  /\ finfo = NoFieldInfo
  /\ q = NoQuery
  /\ dict = make_dictionary([k \in 1..count |-> k])
  /\ build = NoBuild
  /\ iter = NoIter
  /\ con = NoConsole

\* command_set(line) on a line the console has read, '\n' behind it
CommandSet ==
  /\ con.stage = "none"
  /\ \E line \in SetLines, ext \in ExtResults :
       \E o \in Console_command_set(line, <<10>>, mem, ext) :
          /\ mem' = o.mem
          /\ con' = [stage |-> "set", line |-> line, out |-> [o EXCEPT !.mem = <<>>],
                     premem |-> mem]
  /\ UNCHANGED <<cur, buffer, ret, call, finfo, q, dict, build, iter>>

\* pprompt(): the command is over, the console waits for the next line
Prompt ==
  /\ con.stage = "set"
  /\ con' = [stage |-> "prompt"]
  /\ UNCHANGED <<cur, mem, buffer, ret, call, finfo, q, dict, build, iter>>

NextSet == CommandSet \/ Prompt

\* one set command, the first the console handles, on every line of SetLines
SpecSet == InitSet /\ [][NextSet]_vars

-----------------------------------------------------------------------------
(* The console's input and output: the get and put areas of iobuffer        *)
(* (eio.hpp 20-160, eio_buffer.hpp 37-119), the stream functions that reach *)
(* them (eformat.hpp 261-288) and Console (console.cpp 167-303).  inbuf     *)
(* holds the characters from inbuf_start() to egptr_, gptr is gptr_ as an   *)
(* offset, and gbase_ stays at inbuf_start().  Of the put area two facts    *)
(* are kept and not the number of characters: put (pptr_ # pbase_) and full *)
(* (pptr_ = epptr_).  A text put into an area that holds output already may *)
(* therefore fit, fill the area or run into overflow(): all three are       *)
(* behaviours of the model.  Every text but the endless one of ls on a      *)
(* Record is shorter than the put area and not empty.  The driver is the    *)
(* environment: what its read delivers or that it fails, and whether its    *)
(* write and its sync accept                                                *)

EOF == -1

\* the retries stream::sync, buffer::flush, buffer::sync and overflow ask for
StreamSyncTimeout == 100000
FlushTimeout == 5
SyncTimeout == 10000
OverflowTimeout == 20

\* the driver refuses a write or a sync at most MaxBusy times in a row
MaxBusy == 2

\* a driver read that fails: nothing is delivered, the result is negative
ReadError == <<EOF>>

\* iobuffer::try_get(): chunk is what the driver has to deliver, or ReadError.
\* full tells that the get area had no room and the driver was not asked
try_get(io, chunk) ==
  LET io1 == IF io.gptr = Len(io.inbuf) THEN [io EXCEPT !.inbuf = <<>>, !.gptr = 0] ELSE io
      read == InbufSize - Len(io1.inbuf)
      got == IF Len(chunk) <= read THEN chunk ELSE SubSeq(chunk, 1, read)
  IN IF read = 0 THEN [io |-> io1, read |-> EOF, full |-> TRUE]
     ELSE IF chunk = ReadError THEN [io |-> io1, read |-> EOF, full |-> FALSE]
     ELSE [io |-> [io1 EXCEPT !.inbuf = io1.inbuf \o got], read |-> Len(got), full |-> FALSE]

\* one turn of the loop of iobuffer::flush: try_get(), driver_.write and,
\* when the driver took the output, pptr_ = pbase_
flush_try(io, chunk, accepted) ==
  LET g == try_get(io, chunk).io
  IN IF accepted THEN [g EXCEPT !.put = FALSE, !.full = FALSE] ELSE g

\* buffer::get_next_token(isdelim): the buffer afterwards and the token
get_next_token(io, isdelim) ==
  LET stop == Len(io.inbuf)
      start == find_if_not(io.inbuf, io.gptr, isdelim)
      found == find_if(io.inbuf, start, isdelim)
      loc == IF found < stop THEN found ELSE start
  IN [io |-> [io EXCEPT !.gptr = loc], token |-> SubSeq(io.inbuf, start + 1, loc)]

\* buffer::gflush(): egptr_ = gptr_
gflush(io) == [io EXCEPT !.inbuf = SubSeq(io.inbuf, 1, io.gptr)]

\* buffer::sgetc(): gbase_ < gptr_ ? *gbase_ : EOF
sgetc(io) == IF 0 < io.gptr THEN io.inbuf[1] ELSE EOF

\* buffer::gadvance(to), `to` as an offset from inbuf_start(): the buffer
\* afterwards and in_avail() = gptr_ - gbase_, or EOF
gadvance(io, to) ==
  IF to >= io.gptr /\ to <= Len(io.inbuf)
    THEN [io |-> [io EXCEPT !.gptr = to], ret |-> to]
    ELSE [io |-> io, ret |-> EOF]

\* print_field(so, field): *info.name through the null name of a Field that
\* has none is undefined: the read stops the program (TRUE) or yields some
\* text and the console goes on (FALSE)
print_field(i, id) == IF FieldInfo_valid(Field_info(i, id)) THEN {FALSE} ELSE {TRUE, FALSE}

\* operator<<(so, const Object&): a Variable is read and printed, of a Record
\* or an Array every Field from begin() to end() goes through print_field.
\* The results are get's and whether the program was stopped
print_object(i, blocks) ==
  LET object == items[i].object
  IN IF object.info.otype = "Variable"
       THEN {[e |-> Object_get_all(object, blocks[i], Uninitialised, ConsoleBufferSize).ret,
              fault |-> FALSE]}
       ELSE {[e |-> OK, fault |-> f] :
               f \in {FALSE} \cup
                     UNION {print_field(i, id) : id \in Object_begin(object)..(Object_end(object) - 1)}}

\* Console::command_get(line): the Error or size the command came to (NotRun
\* for the usage text) and whether the program was stopped in it
Console_command_get(line, blocks) ==
  IF line = <<>> THEN {[e |-> NotRun, fault |-> FALSE]}
  ELSE UNION
         {IF r.ret # OK THEN {[e |-> r.ret, fault |-> FALSE]}
          ELSE IF r.q.subIdx < 0 THEN print_object(r.q.item, blocks)
          ELSE {[e |-> Object_get(items[r.q.item].object, blocks[r.q.item], r.q.subIdx,
                                  Uninitialised, ConsoleBufferSize).ret,
                 fault |-> FALSE]} :
            r \in {Dictionary_query(Query_ctor(line))}}

\* Console::command_list(line): whether it comes to an end.
\* operator<<(so, const Object::Info&) prints a Record with
\* so << static_cast<const Record::Info&>(info), which is that operator
\* again: it writes "Record:" for ever (TRUE)
Console_command_list(line) ==
  IF line = <<>> THEN {FALSE}
  ELSE {item # 0 /\ items[item].object.info.otype = "Record" : item \in {Dictionary_find(line)}}

\* the command word of a line, as Console::poll compares it
commandstr(word) ==
  CASE sv_eq(word, <<108, 115>>) -> "ls"
    [] sv_eq(word, <<103, 101, 116>>) -> "get"
    [] sv_eq(word, <<115, 101, 116>>) -> "set"
    [] sv_eq(word, S.status) -> "status"
    [] OTHER -> "unknown"

\* the console between two calls: c is what it was, op the call that ended
Idle(c, op, result, text) ==
  [stage |-> "idle", io |-> c.io, op |-> op, ret |-> result, token |-> text,
   timeout |-> 0, busy |-> 0, polls |-> 0, next |-> "idle", after |-> "idle",
   line |-> <<>>, status |-> IF op = "poll" THEN c.status ELSE 0, eof |-> op = "poll" /\ c.eof,
   cmd |-> IF op = "poll" THEN c.cmd ELSE "none", e |-> IF op = "poll" THEN c.e ELSE NotRun]

\* a call of op begins: nothing is left of the call before but the buffer
Called(c, op) == [Idle(c, "none", 0, <<>>) EXCEPT !.op = op]

\* a call that has reached a loop (of flush, sync or poll), the command or
\* the recursion of ls
Busy(c, stage, timeout, next) ==
  [c EXCEPT !.stage = stage, !.timeout = timeout, !.busy = 0, !.next = next]

\* iobuffer::flush(timeout) entered: with an empty put area it returns 0,
\* else its loop starts.  next is where its result goes: to the loop of
\* sync, to the command after the echo, to the try_get of poll, or to the
\* owner
flush(c, timeout, next) ==
  IF c.io.put THEN {Busy(c, "flush", timeout, next)}
  ELSE IF next = "sync" THEN {Busy(c, "sync", 0, "idle")}
  ELSE IF next = "command" THEN {Busy(c, "command", 0, "idle")}
  ELSE IF next = "poll" THEN {Busy(c, "get", 0, "idle")}
  ELSE {Idle(c, c.op, 0, <<>>)}

\* one turn of the loop of iobuffer::poll begins: flush(0), then try_get().
\* after tells whose poll it is: Console::poll's, that of the getline in
\* Console::poll, the owner's poll or the owner's getline
poll_turn(c, after) == flush([c EXCEPT !.after = after], 0, "poll")

\* a text has been put, or given up: a prompt is followed by so.sync(), the
\* echo of the line by flush(), the text of ls on a Record by more of it,
\* and sputc and sputn return to the owner
written(c, after) ==
  IF after = "sync" THEN flush(c, StreamSyncTimeout, "sync")
  ELSE IF after = "echo" THEN flush(c, FlushTimeout, "command")
  ELSE IF after = "recurse" THEN {Busy(c, "recurse", 0, "idle")}
  ELSE {Idle(c, c.op, c.ret, <<>>)}

\* buffer::sputc and buffer::sputn on a put area without room:
\* overflow(c), which is flush(20)
overflow(c, after) ==
  {[Busy([c EXCEPT !.io.put = TRUE, !.io.full = TRUE], "flush", OverflowTimeout, "put")
      EXCEPT !.after = after]}

\* what putting a character leaves of an area that had room: one that holds
\* output already may be full by it
put_area(io) == {[io EXCEPT !.put = TRUE, !.full = f] : f \in IF io.put THEN BOOLEAN ELSE {FALSE}}

\* the console or the owner puts a text (sputn, or several sputc and sputn):
\* it fits, or the area runs full before its end
write(c, after) ==
  (UNION {written([c EXCEPT !.io = io], after) : io \in IF c.io.full THEN {} ELSE put_area(c.io)})
    \cup (IF c.io.put THEN overflow(c, after) ELSE {})

\* overflow has its result from flush.  Above 0 the character is stored and
\* the rest of the text fits.  Else overflow returns EOF: sputc and sputn
\* return it to the owner, the console goes on with what it has left to put
overflowed(c, left) ==
  IF left > 0 THEN written([c EXCEPT !.io.put = TRUE, !.io.full = FALSE], c.after)
  ELSE IF c.after = "idle" THEN {Idle(c, c.op, EOF, <<>>)}
  ELSE written(c, c.after) \cup write(c, c.after)

\* flush has returned `left`: buffer::sync goes on to its own loop, the echo
\* of Console::poll to the command, overflow to its test, and the owner's
\* flush returns it
flushed(c, left) ==
  IF c.next = "sync" THEN {Busy(c, "sync", left, "idle")}
  ELSE IF c.next = "command" THEN {Busy(c, "command", 0, "idle")}
  ELSE IF c.next = "put" THEN overflowed(c, left)
  ELSE IF c.next = "poll" THEN {Busy(c, "get", 0, "idle")}
  ELSE {Idle(c, c.op, left, <<>>)}

\* Console::pprompt(): so << prompt_; so.sync()
pprompt(c) == write(c, "sync")

\* what the driver delivers to one read: nothing, a line end, text without a
\* line end, a set, a get and an ls command, or an error
Chunks ==
  {<<>>, <<10>>, <<97, 97, 97, 97, 97>>,
   <<115, 101, 116, 32>> \o S.speed \o <<61, 51, 10>>,
   <<103, 101, 116, 32>> \o S.speed \o <<13>>,
   <<103, 101, 116, 32>> \o S.cfg \o <<10>>,
   <<108, 115, 32>> \o S.cfg \o <<10>>,
   ReadError}

\* the timeouts the owner calls poll, flush and sync with
PollTimeouts == {0, 1}
FlushTimeouts == {0, 1, FlushTimeout}
SyncTimeouts == {0, SyncTimeout}
\* the lengths of the texts the owner gives to sputn
SputnSizes == {0, 3}

\* the iobuffer as constructed; the Console is about to be
InitConsole ==
  /\ cur = 1
  /\ mem = [i \in 1..count |-> [a \in Addr |-> (16 + a) % 256]]
  /\ buffer = <<>>
  /\ ret = 0
  /\ call = [op |-> "none", subIdx |-> 0, data |-> <<>>, size |-> 0, ext |-> OK,
             premem |-> mem[cur], calls |-> <<>>, fault |-> FALSE]
  /\ finfo = NoFieldInfo
  /\ q = NoQuery
  /\ dict = make_dictionary([k \in 1..count |-> k])
  /\ build = NoBuild
  /\ iter = NoIter
  /\ con = [stage |-> "new", io |-> [inbuf |-> <<>>, gptr |-> 0, put |-> FALSE, full |-> FALSE],
            op |-> "none", ret |-> 0, token |-> <<>>, timeout |-> 0, busy |-> 0,
            polls |-> 0, next |-> "idle", after |-> "idle", line |-> <<>>, status |-> 0, eof |-> FALSE,
            cmd |-> "none", e |-> NotRun]

\* Console::Console: pprompt()
Construct ==
  /\ con.stage = "new"
  /\ con' \in pprompt([con EXCEPT !.op = "Console"])
  /\ UNCHANGED <<cur, mem, buffer, ret, call, finfo, q, dict, build, iter>>

\* console.poll() begins: so.buf.poll(), a poll of one turn
ConsolePoll ==
  /\ con.stage = "idle"
  /\ con' \in poll_turn(Called(con, "poll"), "console")
  /\ UNCHANGED <<cur, mem, buffer, ret, call, finfo, q, dict, build, iter>>

\* console.poll() from the try_get of so.buf.poll() on: the status, the
\* overflow branch and, with something to read, the poll of getline()
ConsolePolled ==
  /\ con.stage = "get" /\ con.after = "console"
  /\ \E chunk \in Chunks :
       \E r \in {try_get(con.io, chunk)} :
         \E c \in {[con EXCEPT !.io = r.io, !.ret = Len(r.io.inbuf) - r.io.gptr,
                                 !.status = Len(r.io.inbuf) - r.io.gptr, !.eof = r.full]} :
           IF c.status < 0
             THEN con' \in pprompt([c EXCEPT !.io = gflush(r.io), !.cmd = "overflow"])
           ELSE IF c.status > 0
             THEN con' \in poll_turn(c, "console.getline")
             ELSE con' = Idle(c, "poll", c.status, <<>>)
  /\ UNCHANGED <<cur, mem, buffer, ret, call, finfo, q, dict, build, iter>>

\* console.poll() from the try_get of getline() to the echo of the line,
\* so.write(line) << endl, whose flush has the default timeout
ConsoleGetline ==
  /\ con.stage = "get" /\ con.after = "console.getline"
  /\ \E chunk \in Chunks :
       \E g \in {get_next_token(try_get(con.io, chunk).io, "isendline")} :
         IF g.token # <<>>
           THEN con' \in write([con EXCEPT !.io = g.io, !.line = g.token, !.cmd = "line"],
                               "echo")
         ELSE IF isendline(sgetc(g.io))
           THEN con' \in pprompt([con EXCEPT !.io = g.io, !.cmd = "prompt"])
           ELSE con' = Idle([con EXCEPT !.io = g.io], "poll", con.status, <<>>)
  /\ UNCHANGED <<cur, mem, buffer, ret, call, finfo, q, dict, build, iter>>

\* one turn of the loop of iobuffer::flush
FlushTry ==
  /\ con.stage = "flush"
  /\ \E chunk \in Chunks, accepted \in BOOLEAN :
       /\ ~accepted => con.busy < MaxBusy
       /\ \E io \in {flush_try(con.io, chunk, accepted)} :
            IF accepted
              THEN con' \in flushed([con EXCEPT !.io = io], con.timeout)
            ELSE IF con.timeout > 0
              THEN con' = [con EXCEPT !.io = io, !.timeout = @ - 1, !.busy = @ + 1]
              ELSE con' \in flushed([con EXCEPT !.io = io], con.timeout - 1)
  /\ UNCHANGED <<cur, mem, buffer, ret, call, finfo, q, dict, build, iter>>

\* one turn of the loop of iobuffer::sync: try_get() and, while timeout is
\* left, driver_.sync(0).  When the loop ends the call that led here returns
SyncTry ==
  /\ con.stage = "sync"
  /\ \E chunk \in Chunks, synced \in BOOLEAN :
       /\ ~synced => (con.timeout > 0 /\ con.busy < MaxBusy)
       /\ \E io \in {try_get(con.io, chunk).io} :
            con' = IF synced
                     THEN Idle([con EXCEPT !.io = io], con.op,
                               IF con.op = "sync" THEN con.timeout - 1 ELSE con.ret, <<>>)
                     ELSE [con EXCEPT !.io = io, !.timeout = @ - 1, !.busy = @ + 1]
  /\ UNCHANGED <<cur, mem, buffer, ret, call, finfo, q, dict, build, iter>>

\* console.poll() from the command word to pprompt().  What follows the line
\* in the get area is there for parse to read
RunCommand ==
  /\ con.stage = "command"
  /\ \E t \in {next_token(con.line, "isspace")} :
       \E line \in {trim_prefix(t.str, "isspace")}, cmd \in {commandstr(t.token)} :
         IF cmd = "set"
           THEN \E ext \in ExtResults :
                  \E o \in Console_command_set(line,
                             SubSeq(con.io.inbuf, con.io.gptr + 1, Len(con.io.inbuf)), mem, ext) :
                    /\ mem' = o.mem
                    /\ IF o.fault
                         THEN con' = [con EXCEPT !.stage = "fault", !.cmd = cmd, !.e = o.e]
                         ELSE con' \in pprompt([con EXCEPT !.cmd = cmd, !.e = o.e])
         ELSE IF cmd = "get"
           THEN \E o \in Console_command_get(line, mem) :
                    /\ mem' = mem
                    /\ IF o.fault
                         THEN con' = [con EXCEPT !.stage = "fault", !.cmd = cmd, !.e = o.e]
                         ELSE con' \in pprompt([con EXCEPT !.cmd = cmd, !.e = o.e])
         ELSE IF cmd = "ls"
           THEN \E endless \in Console_command_list(line) :
                    /\ mem' = mem
                    /\ IF endless
                         THEN con' \in write([con EXCEPT !.cmd = cmd], "recurse")
                         ELSE con' \in pprompt([con EXCEPT !.cmd = cmd])
           ELSE /\ mem' = mem
                /\ con' \in pprompt([con EXCEPT !.cmd = cmd])
  /\ UNCHANGED <<cur, buffer, ret, call, finfo, q, dict, build, iter>>

\* ls on a Record, operator<< calling itself: the text fills the put area
\* and overflow() flushes it, time and again
Recurse ==
  /\ con.stage = "recurse"
  /\ con' \in overflow(con, "recurse")
  /\ UNCHANGED <<cur, mem, buffer, ret, call, finfo, q, dict, build, iter>>

\* the recursion has used up the stack: the program is stopped, in the
\* recursion or in the flush it has called.  A build that turns the call
\* into a jump never comes here
StackOverflow ==
  /\ \/ con.stage = "recurse"
     \/ con.stage = "flush" /\ con.next = "put" /\ con.after = "recurse"
  /\ con' = [con EXCEPT !.stage = "fault"]
  /\ UNCHANGED <<cur, mem, buffer, ret, call, finfo, q, dict, build, iter>>

(* Between two polls the owner of the device may call the public functions  *)
(* of its buffer, directly or through the stream                            *)

\* buf.poll(timeout) begins
BufPoll ==
  /\ con.stage = "idle"
  /\ \E timeout \in PollTimeouts :
       con' \in poll_turn([Called(con, "buf.poll") EXCEPT !.polls = timeout], "poll")
  /\ UNCHANGED <<cur, mem, buffer, ret, call, finfo, q, dict, build, iter>>

\* the try_get of a turn of buf.poll(timeout) and the test of its loop
PollTry ==
  /\ con.stage = "get" /\ con.after = "poll"
  /\ \E chunk \in Chunks :
       \E r \in {try_get(con.io, chunk)} :
         IF con.polls > 0 /\ r.read <= 0
           THEN con' \in poll_turn([con EXCEPT !.io = r.io, !.polls = @ - 1], "poll")
           ELSE con' = Idle([con EXCEPT !.io = r.io], "buf.poll",
                            Len(r.io.inbuf) - r.io.gptr, <<>>)
  /\ UNCHANGED <<cur, mem, buffer, ret, call, finfo, q, dict, build, iter>>

\* buf.getline() begins: poll()
Getline ==
  /\ con.stage = "idle"
  /\ con' \in poll_turn(Called(con, "getline"), "getline")
  /\ UNCHANGED <<cur, mem, buffer, ret, call, finfo, q, dict, build, iter>>

\* buf.getline() from the try_get of its poll on: get_next_token(isendline)
GetlineToken ==
  /\ con.stage = "get" /\ con.after = "getline"
  /\ \E chunk \in Chunks :
       \E g \in {get_next_token(try_get(con.io, chunk).io, "isendline")} :
         con' = Idle([con EXCEPT !.io = g.io], "getline", 0, g.token)
  /\ UNCHANGED <<cur, mem, buffer, ret, call, finfo, q, dict, build, iter>>

\* buf.get_next_token(isdelim)
GetNextToken ==
  /\ con.stage = "idle"
  /\ \E isdelim \in {"isspace", "isendline"} :
       \E g \in {get_next_token(con.io, isdelim)} :
         con' = Idle([con EXCEPT !.io = g.io], "get_next_token", 0, g.token)
  /\ UNCHANGED <<cur, mem, buffer, ret, call, finfo, q, dict, build, iter>>

\* buf.gflush()
Gflush ==
  /\ con.stage = "idle"
  /\ con' = Idle([con EXCEPT !.io = gflush(con.io)], "gflush", 0, <<>>)
  /\ UNCHANGED <<cur, mem, buffer, ret, call, finfo, q, dict, build, iter>>

\* buf.gadvance(to): to the start of the buffer, to the end of the get area
\* and to the end of the buffer
Gadvance ==
  /\ con.stage = "idle"
  /\ \E to \in {0, Len(con.io.inbuf), InbufSize} :
       \E r \in {gadvance(con.io, to)} :
         con' = Idle([con EXCEPT !.io = r.io], "gadvance", r.ret, <<>>)
  /\ UNCHANGED <<cur, mem, buffer, ret, call, finfo, q, dict, build, iter>>

\* buf.sync(timeout)
BufSync ==
  /\ con.stage = "idle"
  /\ \E timeout \in SyncTimeouts :
       con' \in flush(Called(con, "sync"), timeout, "sync")
  /\ UNCHANGED <<cur, mem, buffer, ret, call, finfo, q, dict, build, iter>>

\* buf.flush(timeout)
BufFlush ==
  /\ con.stage = "idle"
  /\ \E timeout \in FlushTimeouts :
       con' \in flush(Called(con, "flush"), timeout, "idle")
  /\ UNCHANGED <<cur, mem, buffer, ret, call, finfo, q, dict, build, iter>>

\* buf.sputc(c): the character, or what overflow(c) returns
Sputc ==
  /\ con.stage = "idle"
  /\ \E c \in {65} :
       con' \in IF con.io.full
                  THEN overflow([Called(con, "sputc") EXCEPT !.ret = c], "idle")
                  ELSE UNION {written([Called(con, "sputc") EXCEPT !.io = io, !.ret = c], "idle") :
                                io \in put_area(con.io)}
  /\ UNCHANGED <<cur, mem, buffer, ret, call, finfo, q, dict, build, iter>>

\* buf.sputn(begin, n): 0, or EOF when overflow fails
Sputn ==
  /\ con.stage = "idle"
  /\ \E n \in SputnSizes :
       con' \in IF n = 0 THEN {Idle(con, "sputn", 0, <<>>)}
                ELSE write(Called(con, "sputn"), "idle")
  /\ UNCHANGED <<cur, mem, buffer, ret, call, finfo, q, dict, build, iter>>

NextConsole ==
  \/ Construct \/ ConsolePoll \/ ConsolePolled \/ ConsoleGetline
  \/ FlushTry \/ SyncTry \/ RunCommand \/ Recurse \/ StackOverflow
  \/ BufPoll \/ PollTry \/ Getline \/ GetlineToken \/ GetNextToken \/ Gflush \/ Gadvance
  \/ BufSync \/ BufFlush \/ Sputc \/ Sputn

SpecConsole == InitConsole /\ [][NextConsole]_vars

TypeOK ==
  /\ cur \in 1..count
  /\ \A i \in 1..count : mem[i] \in [Addr -> 0..255]
  /\ call.op \in {"none", "set", "get", "get_all", "info", "query", "find", "query_text",
                  "dict_get", "read", "write"}
  /\ Len(dict.items) = Len(dict.objects)

-----------------------------------------------------------------------------
(* Properties *)

CurObj == items[cur].object
CurInfo == items[cur].object.info
CurSetter == items[cur].object.info.set_function

\* the n bytes of a storage block from offset at
MemBytes(block, at, n) == [i \in 1..n |-> block[at + i - 1]]
\* the first n bytes of a buffer
Prefix(buf, n) == [i \in 1..n |-> buf[i]]

\* C1: whenever set returns anything other than OK, for whatever strategy is
\* bound (set_chain compositions included) and whatever the input, the storage
\* is byte for byte what it was before the call.
C1_FailedSetLeavesStorage ==
  (call.op = "set" /\ ret # OK) => mem[cur] = call.premem

\* C2: for a scalar setter set_variable<T, min, max>: set returns OK iff the size
\* is sizeof(T) and (min = max or min <= value <= max); otherwise ParamTooLong
\* for a longer input, ParamTooShort for a shorter one, ValueTooLow below min,
\* ValueTooHigh above max, a size error taking precedence over a range error.
C2_ScalarSetResult ==
  (call.op = "set" /\ CurSetter.fn = "set_variable") =>
    LET T == CurSetter.T
        min == CurSetter.min
        max == CurSetter.max
        fits == call.size = SizeOf(T)
    IN /\ (ret = OK) <=> (fits /\ (min = max \/ (min <= Decode(T, call.data)
                                                 /\ Decode(T, call.data) <= max)))
       /\ call.size > SizeOf(T) => ret = ParamTooLong
       /\ call.size < SizeOf(T) => ret = ParamTooShort
       /\ (fits /\ min # max /\ Decode(T, call.data) < min) => ret = ValueTooLow
       /\ (fits /\ min # max /\ Decode(T, call.data) > max) => ret = ValueTooHigh
       /\ ret \in {OK, ParamTooLong, ParamTooShort, ValueTooLow, ValueTooHigh}

\* a value far outside any range was accepted by a setter whose min equals max
C2_Witness ==
  /\ call.op = "set"
  /\ CurSetter.fn = "set_variable"
  /\ CurSetter.min = CurSetter.max
  /\ call.data = <<200>>
  /\ ret = OK
  /\ mem[cur][0] = 200

\* the scalar endpoints that write memory: a Variable bound to set_variable at
\* sub-index 0, a Record field bound to set_default at its sub-index
WritesScalar(i, subIdx) ==
  LET info == items[i].object.info
  IN \/ info.otype = "Variable" /\ subIdx = 0 /\ info.set_function.fn = "set_variable"
     \/ /\ info.otype = "Record" /\ info.set_function.fn = "set_data"
        /\ subIdx \in 1..info.nelem
        /\ info.fields[subIdx].set_function.fn = "set_default"

\* C3 as stated: once set(idx, x) has returned OK on a scalar endpoint that is
\* not read-only, get(idx, buf, capacity) with any capacity >= the width of x
\* returns that width and leaves exactly the bytes of x in buf.
C3_RoundTrip ==
  (call.op = "set" /\ ret = OK /\ CurObj.data /\ WritesScalar(cur, call.subIdx)) =>
    \A size \in call.size..BufLen, fill \in Fills :
      LET g == Object_get(CurObj, mem[cur], call.subIdx, FreshBuffer(fill), size)
      IN g.ret = call.size /\ Prefix(g.buffer, call.size) = call.data

\* the bytes of the buffer after the first n are those the caller had there
RestUntouched(n) == \A i \in (n + 1)..BufLen : buffer[i] = call.data[i]

\* C4: for a Record of N fields with bound data, get(0) returns 1 and writes the
\* byte N; get(k), 1 <= k <= N, returns the declared size of field k-1 and copies
\* that many bytes from the field's declared offset when the capacity suffices,
\* and returns ParamTooShort leaving buf alone when it does not; get(k), k > N,
\* returns FieldNotFound.
C4_RecordGet ==
  (call.op = "get" /\ CurObj.data /\ CurInfo.otype = "Record") =>
    LET k == call.subIdx
        N == CurInfo.nelem
    IN /\ k = 0 => (ret = 1 /\ buffer[1] = N /\ RestUntouched(1))
       /\ (1 <= k /\ k <= N) =>
            LET fld == CurInfo.fields[k]
            IN IF call.size >= fld.data_size
                 THEN /\ ret = fld.data_size
                      /\ Prefix(buffer, fld.data_size)
                           = MemBytes(mem[cur], fld.data_offset, fld.data_size)
                      /\ RestUntouched(fld.data_size)
                 ELSE ret = ParamTooShort /\ buffer = call.data
       /\ k > N => (ret = FieldNotFound /\ buffer = call.data)
       /\ mem[cur] = call.premem

\* the last field of a record whose first field is not at offset 0 was read
\* into a buffer of exactly its size
C4_Witness ==
  /\ call.op = "get"
  /\ CurObj.name = S.cfg
  /\ call.subIdx = CurInfo.nelem
  /\ call.size = 1
  /\ ret = 1
  /\ buffer[1] = mem[cur][2]
  /\ buffer[1] # call.data[1]

\* C5: for an Array of N elements with bound data, get(0) returns 1 and yields the
\* byte N; get(k), 1 <= k <= N, returns type_size(type) and yields the bytes
\* stored at data_offset + type_size(type) * (k-1); get(k), k > N, returns
\* FieldNotFound.
C5_ArrayGet ==
  (call.op = "get" /\ CurObj.data /\ CurInfo.otype = "Array") =>
    LET k == call.subIdx
        N == CurInfo.nelem
        ts == type_size(CurInfo.type)
    IN /\ k = 0 => (ret = 1 /\ buffer[1] = N /\ RestUntouched(1))
       /\ (1 <= k /\ k <= N) =>
            /\ ret = ts
            /\ Prefix(buffer, ts) = MemBytes(mem[cur], CurInfo.data_offset + ts * (k - 1), ts)
       /\ k > N => ret = FieldNotFound

\* the last element of the U16 array was read
C5_Witness ==
  /\ call.op = "get"
  /\ CurObj.name = S.gains
  /\ call.subIdx = 3
  /\ ret = 2
  /\ buffer[1] = mem[cur][6]
  /\ buffer[2] = mem[cur][7]

\* C6 as stated: for a Variable with bound data, get(0, buf, capacity) with any
\* capacity >= data_size, capacity = data_size included, returns data_size and
\* copies the data_size bytes of the scalar into buf; get(k), k # 0, returns
\* FieldNotFound.
C6_VariableGet ==
  (call.op = "get" /\ CurObj.data /\ CurInfo.otype = "Variable") =>
    IF call.subIdx = 0
      THEN call.size >= CurInfo.data_size =>
             /\ ret = CurInfo.data_size
             /\ Prefix(buffer, CurInfo.data_size)
                  = MemBytes(mem[cur], CurInfo.data_offset, CurInfo.data_size)
      ELSE ret = FieldNotFound

\* C7: on an Object whose data pointer is null, get(subIdx, buf, capacity) and
\* the whole-object get(buf, capacity) return WriteOnly whatever the sub-index
\* and the shape, and leave the caller's buffer as it was.
C7_NullDataIsWriteOnly ==
  (call.op \in {"get", "get_all"} /\ ~CurObj.data) =>
    (ret = WriteOnly /\ buffer = call.data)

\* the element count of a write-only Array was asked for
C7_Witness ==
  /\ call.op = "get"
  /\ ~CurObj.data
  /\ CurInfo.otype = "Array"
  /\ call.subIdx = 0
  /\ ret = WriteOnly

\* C8 as stated: for a Record of N fields, info(k), 1 <= k <= N, is valid and
\* carries the declared name, the declared offset and the declared size of
\* field k-1; info(0) and info(k), k > N, are invalid (null name); info leaves
\* the storage alone.
C8_RecordInfo ==
  (call.op = "info" /\ CurInfo.otype = "Record") =>
    LET k == call.subIdx
    IN /\ IF 1 <= k /\ k <= CurInfo.nelem
            THEN /\ FieldInfo_valid(finfo)
                 /\ NameOf(finfo.name) = CurInfo.fields[k].name
                 /\ finfo.offset = CurInfo.fields[k].data_offset
                 /\ finfo.size = CurInfo.fields[k].data_size
            ELSE ~FieldInfo_valid(finfo)
       /\ mem[cur] = call.premem

\* the item a query resolved and the sub-name it asked for
QInfo == items[q.item].object.info
Asked == call.op = "query" /\ q.item # 0 /\ q.subobject_name # <<>>

\* C9 as stated: Dictionary::query on an Array with N display names and a
\* non-empty sub-name returns OK with subIdx = i + 1 when display name i
\* (0 <= i < N, the last one included) is the first one equal to the sub-name,
\* and FieldNotFound when none is; so OK implies 1 <= subIdx <= N.
C9_ArrayQuery ==
  (Asked /\ QInfo.otype = "Array") =>
    LET N == QInfo.nelem
        hits == {k \in 1..N : QInfo.names[k] = q.subobject_name}
    IN /\ IF hits # {}
            THEN ret = OK /\ q.subIdx \in hits /\ \A k \in hits : q.subIdx <= k
            ELSE ret = FieldNotFound
       /\ ret = OK => (1 <= q.subIdx /\ q.subIdx <= N)

\* C10 as stated: Dictionary::query on a Record with a non-empty sub-name
\* returns OK with subIdx = (index of the first field whose name equals the
\* sub-name) + 1 and info = that field's FieldInfo, and FieldNotFound when no
\* field name equals it; on a Variable every non-empty sub-name gives
\* FieldNotFound.
C10_RecordQuery ==
  Asked =>
    /\ QInfo.otype = "Record" =>
         LET hits == {k \in 1..QInfo.nelem : QInfo.fields[k].name = q.subobject_name}
         IN IF hits # {}
              THEN /\ ret = OK
                   /\ q.subIdx \in hits
                   /\ \A k \in hits : q.subIdx <= k
                   /\ q.info = Ref("field", q.item, q.subIdx)
              ELSE ret = FieldNotFound
    /\ QInfo.otype = "Variable" => ret = FieldNotFound

\* two names are the same up to the case of their ASCII letters
SameIgnoringCase(a, b) ==
  /\ Len(a) = Len(b)
  /\ \A i \in 1..Len(a) :
       (IF a[i] \in 65..90 THEN a[i] + 32 ELSE a[i]) = (IF b[i] \in 65..90 THEN b[i] + 32 ELSE b[i])

\* C10 amended: the same, with field names compared to the sub-name ignoring the
\* case of ASCII letters (string_view::operator== folds both sides to lower case).
C10_RecordQueryIgnoringCase ==
  Asked =>
    /\ QInfo.otype = "Record" =>
         LET hits == {k \in 1..QInfo.nelem :
                        SameIgnoringCase(QInfo.fields[k].name, q.subobject_name)}
         IN IF hits # {}
              THEN /\ ret = OK
                   /\ q.subIdx \in hits
                   /\ \A k \in hits : q.subIdx <= k
                   /\ q.info = Ref("field", q.item, q.subIdx)
                   /\ Deref(q.info) = QInfo.fields[q.subIdx]
              ELSE ret = FieldNotFound
    /\ QInfo.otype = "Variable" => ret = FieldNotFound

\* a name borne by the first and the last field of a record resolved to the first
C10_Witness ==
  /\ call.op = "query"
  /\ q.object_name = S.cmd
  /\ q.subobject_name = S.go
  /\ QInfo.fields[3].name = S.go
  /\ ret = OK
  /\ q.subIdx = 1

\* Dictionary::find has returned an item
Found == call.op = "find" /\ q.item # 0

\* C11 as stated: name matching is case-sensitive: Dictionary::find returns an
\* item only if its name is the name asked for, character for character, and
\* Dictionary::query resolves a Record field or an Array element only if its
\* name is the sub-name asked for, character for character; so find("STATUS")
\* does not return "status" and query("status.TEMP") returns FieldNotFound.
C11_CaseSensitiveMatch ==
  /\ Found => items[q.item].object.name = q.object_name
  /\ (Asked /\ QInfo.otype = "Record" /\ ret = OK) =>
       QInfo.fields[q.subIdx].name = q.subobject_name
  /\ (Asked /\ QInfo.otype = "Record"
        /\ \A k \in 1..QInfo.nelem : QInfo.fields[k].name # q.subobject_name) =>
       ret = FieldNotFound
  /\ (Asked /\ QInfo.otype = "Array" /\ q.subIdx \in 1..QInfo.nelem) =>
       QInfo.names[q.subIdx] = q.subobject_name

\* C11 amended: name matching ignores the case of ASCII letters: find(name)
\* returns the first stored item whose name equals name up to letter case and
\* none when there is no such item; for a Record, query returns OK exactly when
\* some field name equals the sub-name up to letter case; for an Array, query
\* sets subIdx to 1 + the index of the first display name equal to the sub-name
\* up to letter case, and to N + 1 when there is none.
C11_MatchIgnoringCase ==
  /\ call.op = "find" =>
       LET n == Len(dict.items)
           hits == {k \in 1..n : SameIgnoringCase(items[dict.items[k]].object.name, q.object_name)}
       IN IF hits = {} THEN q.item = 0
          ELSE \E k \in hits : q.item = dict.items[k] /\ \A j \in hits : k <= j
  /\ (Asked /\ QInfo.otype = "Record") =>
       (ret = OK <=> \E k \in 1..QInfo.nelem :
                        SameIgnoringCase(QInfo.fields[k].name, q.subobject_name))
  /\ (Asked /\ QInfo.otype = "Array") =>
       LET hits == {k \in 1..QInfo.nelem : SameIgnoringCase(QInfo.names[k], q.subobject_name)}
       IN IF hits = {} THEN q.subIdx = QInfo.nelem + 1
          ELSE q.subIdx \in hits /\ \A j \in hits : q.subIdx <= j

\* find("STATUS") returned the object named "status"
C11_Witness ==
  /\ call.op = "find"
  /\ q.object_name = S.STATUS
  /\ q.item # 0
  /\ items[q.item].object.name = S.status

\* a text free of separators and white space
Plain(str) == \A i \in 1..Len(str) : ~Query_issep(str[i]) /\ ~isspace(str[i])

\* C12: a Query constructed from the text A<sep>B, <sep> one of '.', ':', '/'
\* and A, B non-empty without separator or white space, has object_name = A and
\* subobject_name = B; constructed from a text A without separator it has
\* subobject_name empty, and query() for an existing object named A then returns
\* OK with subIdx = -1 and info = that object's own Info.
C12_QueryConstruction ==
  call.op = "query_text" =>
    LET text == call.data
        n == Len(text)
    IN /\ \A k \in 1..n :
            LET A == SubSeq(text, 1, k - 1)
                B == SubSeq(text, k + 1, n)
            IN (Query_issep(text[k]) /\ A # <<>> /\ B # <<>> /\ Plain(A) /\ Plain(B)) =>
                 (q.object_name = A /\ q.subobject_name = B)
       /\ (text # <<>> /\ Plain(text)) =>
            /\ q.object_name = text
            /\ q.subobject_name = <<>>
            /\ (\E k \in 1..Len(dict.items) : items[dict.items[k]].object.name = text) =>
                 /\ ret = OK
                 /\ q.subIdx = -1
                 /\ q.item # 0
                 /\ items[q.item].object.name = text
                 /\ q.info = Ref("object", q.item, 0)
                 /\ Deref(q.info) = items[q.item].object.info

\* "status:temp" was split at the colon and resolved to field 1 of the record
C12_Witness ==
  /\ call.op = "query_text"
  /\ call.data = S.status \o <<58>> \o S.temp
  /\ q.object_name = S.status
  /\ q.subobject_name = S.temp
  /\ ret = OK
  /\ q.subIdx = 1

\* C13 as stated: Query construction trims the surrounding white space of each
\* name: for every text neither object_name nor subobject_name starts or ends
\* with a white-space character.
C13_QueryNamesTrimmed ==
  call.op = "query_text" =>
    /\ q.object_name # <<>> =>
         ~isspace(q.object_name[1]) /\ ~isspace(q.object_name[Len(q.object_name)])
    /\ q.subobject_name # <<>> =>
         ~isspace(q.subobject_name[1]) /\ ~isspace(q.subobject_name[Len(q.subobject_name)])

\* the stored positions of the items at an address
AtAddress(address) == {k \in 1..Len(dict.items) : items[dict.items[k]].address = address}

\* how many times the catalogue item i occurs in an array
Occurrences(a, i) == Cardinality({k \in 1..Len(a) : a[k] = i})

\* C14: for every order in which items are handed to the dictionary constructor
\* the stored item sequence is a permutation of the input, sorted ascending by
\* address, and no get / find / query / read / write call changes it.
C14_SortedAtConstruction ==
  /\ [](/\ \A k \in 1..(Len(dict.items) - 1) :
              items[dict.items[k]].address <= items[dict.items[k + 1]].address
        /\ Len(dict.items) = Len(dict.objects)
        /\ \A i \in 1..count : Occurrences(dict.items, i) = Occurrences(dict.objects, i))
  /\ [][dict' = dict]_vars

\* a dictionary built from items handed over in descending address order, with a
\* repeated item, has been written through
C14_Witness ==
  /\ Len(dict.objects) >= 4
  /\ dict.objects[1] = 10
  /\ dict.objects[2] = 8
  /\ dict.objects[3] = 1
  /\ dict.objects[4] = 8
  /\ dict.items[1] = 1
  /\ call.op = "write"
  /\ ret = OK

\* C15: for every dictionary built by the constructor and every address a,
\* Dictionary::get(a) returns the item a linear scan for address a finds first
\* when some item has address a, and null exactly when no item has it.
C15_GetAgreesWithLinearScan ==
  call.op = "dict_get" =>
    LET hits == AtAddress(call.address)
    IN IF hits = {} THEN ret = 0
       ELSE ret \in hits /\ \A j \in hits : ret <= j

\* the item of the highest address was found at the end of a dictionary of at
\* least three items built from an unsorted array
C15_Witness ==
  /\ call.op = "dict_get"
  /\ call.address = 8192
  /\ Len(dict.items) >= 3
  /\ ret = Len(dict.items)
  /\ dict.objects[1] = 10

\* what C16 says of a read or write by address
ByAddress ==
  call.op \in {"read", "write"} =>
    LET hits == AtAddress(call.address)
    IN IF hits = {}
         THEN /\ ret = ObjectNotFound
              /\ mem = call.premem
              /\ call.op = "read" => buffer = call.data
         ELSE LET i == dict.items[CHOOSE k \in hits : TRUE]
              IN IF call.op = "read"
                   THEN LET g == Object_get(items[i].object, call.premem[i], call.subIdx,
                                            call.data, call.size)
                        IN ret = g.ret /\ buffer = g.buffer /\ mem = call.premem
                   ELSE LET r == Object_set(items[i].object, call.premem[i], call.subIdx,
                                            call.data, call.size, call.ext)
                        IN ret = r.ret /\ mem = [call.premem EXCEPT ![i] = r.mem]

\* C16 as stated: query() with an object_name equal to no item's name returns
\* ObjectNotFound; read and write with an address held by no item return
\* ObjectNotFound and leave the buffer and every storage block unchanged; with
\* the address present they return what Object::get / Object::set return.
C16_UnresolvedIsObjectNotFound ==
  /\ (call.op = "query"
        /\ \A k \in 1..Len(dict.items) : items[dict.items[k]].object.name # q.object_name) =>
       ret = ObjectNotFound
  /\ ByAddress

\* C16 amended: the same, with the object_name equal to no item's name up to
\* the case of ASCII letters.
C16_UnresolvedIgnoringCase ==
  /\ (call.op = "query"
        /\ \A k \in 1..Len(dict.items) :
             ~SameIgnoringCase(items[dict.items[k]].object.name, q.object_name)) =>
       (ret = ObjectNotFound /\ q.item = 0 /\ q.info = NullRef)
  /\ ByAddress

\* a write to an address between those of two stored items was refused after an
\* earlier write had changed the storage
C16_Witness ==
  /\ call.op = "write"
  /\ call.address = 5000
  /\ ret = ObjectNotFound
  /\ AtAddress(4096) # {}
  /\ AtAddress(8192) # {}
  /\ mem[1][0] = 2

\* C17: on the Record "status" at 0x2000 with field 1 "temp" (I16, -40..125) and
\* field 2 "flags" (U8, read-only): query("status.temp") resolves subIdx 1 of
\* type I16; set(1, 85) returns OK and the following get(1) returns the bytes
\* of 85; set(1, 200) returns ValueTooHigh and the stored value stays what it
\* was (85); set(2, x) returns ReadOnly for every x and leaves memory unchanged.
C17_StatusEndToEnd ==
  /\ [](/\ (items[cur].address = 8192 /\ CurObj.name = S.status)
        /\ (call.op = "query" /\ q.object_name = S.status /\ q.subobject_name = S.temp) =>
             (ret = OK /\ q.item = cur /\ q.subIdx = 1 /\ Deref(q.info).type = "I16")
        /\ (call.op = "set" /\ call.subIdx = 1 /\ call.data = Bytes(85, 2)) =>
             /\ ret = OK
             /\ \A fill \in Fills :
                  LET g == Object_get(CurObj, mem[cur], 1, FreshBuffer(fill), 2)
                  IN g.ret = 2 /\ Prefix(g.buffer, 2) = Bytes(85, 2)
        /\ (call.op = "set" /\ call.subIdx = 2) => (ret = ReadOnly /\ mem[cur] = call.premem))
  /\ [][/\ (call'.op = "get" /\ call'.subIdx = 1 /\ call'.size >= 2
              /\ MemBytes(mem[cur], 0, 2) = Bytes(85, 2)) =>
             (ret' = 2 /\ Prefix(buffer', 2) = Bytes(85, 2))
        /\ (call'.op = "set" /\ call'.subIdx = 1 /\ call'.data = Bytes(200, 2)) =>
             (ret' = ValueTooHigh /\ mem' = mem)]_vars

\* set(1, 200) was refused while the field held 85 from an earlier set
C17_Witness ==
  /\ CurObj.name = S.status
  /\ call.op = "set"
  /\ call.subIdx = 1
  /\ call.data = Bytes(200, 2)
  /\ ret = ValueTooHigh
  /\ MemBytes(mem[cur], 0, 2) = Bytes(85, 2)

\* C18: set_string_variable<Length> applied to (bytes, size) returns ParamTooLong
\* and leaves the storage unchanged when size > Length, or when size = Length
\* and the last input byte is not NUL; in every other case it returns OK and the
\* Length bytes of storage are the size input bytes followed by Length - size
\* zero bytes, so that the last of the Length bytes is NUL.
C18_StringSet ==
  (call.op = "set" /\ CurSetter.fn = "set_string_variable" /\ CurObj.data) =>
    LET Length == CurSetter.Length
        at == CurInfo.data_offset
    IN IF call.size > Length \/ (call.size = Length /\ call.data[call.size] # 0)
         THEN ret = ParamTooLong /\ mem[cur] = call.premem
         ELSE /\ ret = OK
              /\ MemBytes(mem[cur], at, Length)
                   = call.data \o [i \in 1..(Length - call.size) |-> 0]
              /\ mem[cur][at + Length - 1] = 0
              /\ \A a \in Addr : (a < at \/ a >= at + Length) => mem[cur][a] = call.premem[a]

\* a string one byte short of the buffer was stored and the byte after it zeroed
C18_Witness ==
  /\ call.op = "set"
  /\ CurSetter.fn = "set_string_variable"
  /\ call.data = <<97, 98>>
  /\ ret = OK
  /\ call.premem[2] # 0
  /\ MemBytes(mem[cur], 0, 3) = <<97, 98, 0>>

\* C19: set_chain<f1, f2> invokes f1 first with the unmodified arguments; f2 is
\* invoked if and only if f1 returned OK, and after it, on the storage f1 left;
\* the chain returns f1's result when that is not OK and f2's result otherwise.
C19_ChainOrder ==
  (call.op = "set" /\ CurSetter.fn = "set_chain") =>
    LET f1 == CurSetter.f1
        f2 == CurSetter.f2
        valid == call.size = 1 /\ Decode("U8", call.data) >= 2 /\ Decode("U8", call.data) <= 5
        v == Decode("U8", call.data)
        stored == [call.premem EXCEPT ![0] = v]
    IN \* f1 stores and f2 calls the external setter (gain)
       /\ (f1.fn = "set_variable" /\ f2.fn = "set_wrapper") =>
            IF valid THEN mem[cur] = stored /\ call.calls = <<v>> /\ ret = call.ext
            ELSE mem[cur] = call.premem /\ call.calls = <<>>
                 /\ ret = check("U8", f1.min, f1.max, call.data, call.size)
       \* f1 calls the external setter and f2 stores (arm)
       /\ (f1.fn = "set_wrapper" /\ f2.fn = "set_variable") =>
            IF valid
              THEN /\ call.calls = <<v>>
                   /\ IF call.ext = OK THEN mem[cur] = stored /\ ret = OK
                      ELSE mem[cur] = call.premem /\ ret = call.ext
              ELSE mem[cur] = call.premem /\ call.calls = <<>>
                   /\ ret = check("U8", f1.min, f1.max, call.data, call.size)

\* the external setter bound as f1 refused and the store bound as f2 did not run
C19_Witness ==
  /\ call.op = "set"
  /\ CurObj.name = S.arm
  /\ call.data = <<5>>
  /\ call.calls = <<5>>
  /\ ret = UnableToSet
  /\ mem[cur] = call.premem
  /\ mem[cur][0] # 5

\* the set_wrapper instantiation a set call on the current object ends in, if any
WrapperOf(subIdx) ==
  IF CurSetter.fn = "set_wrapper" THEN CurSetter
  ELSE IF CurSetter.fn = "set_data" /\ subIdx \in 1..CurInfo.nelem
          /\ CurInfo.fields[subIdx].set_function.fn = "set_wrapper"
    THEN CurInfo.fields[subIdx].set_function
    ELSE [fn |-> "none"]

\* C20: set_wrapper<T, setf, min, max> validates size and range as the scalar
\* setter does; setf is invoked exactly once, with the decoded value, only when
\* the validation yields OK, and what it returns is the result of set; when the
\* validation fails setf is not invoked and the validation error is returned;
\* in no case is the backing storage written.
C20_CallbackSetter ==
  (call.op = "set" /\ WrapperOf(call.subIdx).fn = "set_wrapper") =>
    LET f == WrapperOf(call.subIdx)
        fits == call.size = SizeOf(f.T)
        v == Decode(f.T, call.data)
    IN /\ mem[cur] = call.premem
       /\ IF fits /\ (f.min = f.max \/ (f.min <= v /\ v <= f.max))
            THEN call.calls = <<v>> /\ ret = call.ext
            ELSE /\ call.calls = <<>>
                 /\ ret = (IF call.size > SizeOf(f.T) THEN ParamTooLong
                           ELSE IF call.size < SizeOf(f.T) THEN ParamTooShort
                           ELSE IF v < f.min THEN ValueTooLow ELSE ValueTooHigh)
                 /\ ret = set_variable(set_variable_fn(f.T, f.min, f.max),
                                       [CurObj EXCEPT !.data = TRUE], call.premem,
                                       call.data, call.size).ret

\* the external setter of a record field without range was handed 200 and refused
C20_Witness ==
  /\ call.op = "set"
  /\ CurObj.name = S.cmd
  /\ call.subIdx = 3
  /\ call.data = <<200>>
  /\ call.calls = <<200>>
  /\ ret = UnableToSet

-----------------------------------------------------------------------------
\* the sizes of the first k declared fields
RECURSIVE SizeSum(_, _)
SizeSum(decls, k) == IF k = 0 THEN 0 ELSE SizeSum(decls, k - 1) + SizeOf(decls[k].T)

\* the field declared k-th follows the fields before it without a gap
Contiguous(decls, k) == decls[k].offset = decls[1].offset + SizeSum(decls, k - 1)

\* C21: while a Record Info is built through the FieldList builder, the
\* fields declared so far are accepted exactly when each of them from the
\* second on starts at the first field's offset plus the sizes of the fields
\* before it; the Info made of an accepted build has nelem = the number of
\* fields, data_offset = the first field's offset, data_size = the sum of the
\* field sizes, and stores the fields in declaration order with their name,
\* offset and size.
C21_FieldListBuild ==
  build.stage # "none" =>
    LET d == build.decls
    IN /\ build.fl.ok <=> \A k \in 2..build.k : Contiguous(d, k)
       /\ build.stage = "rejected" <=> ~build.fl.ok
       /\ build.stage = "made" =>
            /\ build.info.otype = "Record"
            /\ build.info.nelem = Len(d)
            /\ build.info.data_offset = d[1].offset
            /\ build.info.data_size = SizeSum(d, Len(d))
            /\ Len(build.info.fields) = Len(d)
            /\ \A k \in 1..Len(d) :
                 /\ build.info.fields[k].name = d[k].name
                 /\ build.info.fields[k].data_offset = d[k].offset
                 /\ build.info.fields[k].data_size = SizeOf(d[k].T)
                 /\ build.info.fields[k].type = d[k].T

\* an Info of three fields of both widths is made, its first field at a non-zero offset
C21_Witness ==
  /\ build.stage = "made"
  /\ Len(build.decls) = 3
  /\ build.decls[1].offset = 1
  /\ build.decls[1].T = "I16"
  /\ build.decls[2].T = "U8"
  /\ build.info.data_size = 5

-----------------------------------------------------------------------------
\* the id of the Field last yielded
Yielded == iter.visited[Len(iter.visited)]

\* C22: iterating an Object from begin() to end() yields the sub-indices
\* 0, 1, ..., nelem-1 in ascending order, each once, and ends after exactly
\* nelem increments; info() and get_to() of the Field yielded return what
\* Object::info(id) and Object::get(id, ...) return for the id yielded.
C22_IterationOrder ==
  iter.stage # "none" =>
    /\ iter.visited = [k \in 1..Len(iter.visited) |-> k - 1]
    /\ Len(iter.visited) <= CurInfo.nelem
    /\ iter.stage = "done" => Len(iter.visited) = CurInfo.nelem /\ iter.incs = CurInfo.nelem
    /\ iter.stage = "body" /\ iter.op = "info" => finfo = Object_info(cur, Yielded)
    /\ iter.stage = "body" /\ iter.op = "get_to" =>
         LET r == Object_get(CurObj, mem[cur], Yielded, FreshBuffer(iter.fill), iter.size)
         IN ret = r.ret /\ buffer = r.buffer

\* the three elements of an Array were yielded as 0, 1, 2 and the loop has ended
C22_Witness ==
  /\ iter.stage = "done"
  /\ CurInfo.otype = "Array"
  /\ iter.visited = <<0, 1, 2>>
  /\ iter.incs = 3

\* C28: every Field yielded while iterating an Array or Record refers to an
\* existing element (its info() has a name), the Fields yielded cover the
\* sub-indices 1..nelem exactly once, and print_field never reads through a
\* null name.
C28_YieldedFieldsExist ==
  (iter.stage # "none" /\ CurInfo.otype \in {"Array", "Record"}) =>
    /\ \A k \in 1..Len(iter.visited) : FieldInfo_valid(Object_info(cur, iter.visited[k]))
    /\ iter.stage = "done" => iter.visited = [k \in 1..CurInfo.nelem |-> k]
    /\ ~iter.nullname

-----------------------------------------------------------------------------
\* the Error codes other than OK
ErrorCodes ==
  {DataTypeError, ParamTooLong, ParamTooShort, ValueTooHigh, ValueTooLow, ObjectNotFound,
   FieldNotFound, ReadOnly, WriteOnly, UnableToSet}

\* C23: every result of Object::get and Object::set is non-negative or equal
\* to an Error code; the Error codes other than OK are negative 32-bit
\* integers and the ten of them are pairwise distinct; a successful get
\* returns a strictly positive byte count.
C23_ResultCodes ==
  /\ Cardinality(ErrorCodes) = 10
  /\ \A e \in ErrorCodes : e < 0 /\ e >= -2147483647 - 1
  /\ call.op \in {"set", "get", "get_all"} => ret >= 0 \/ ret \in ErrorCodes
  /\ call.op \in {"get", "get_all"} /\ ret >= 0 => ret > 0

\* the element count of a Record was read into a buffer of capacity 1: a
\* successful get whose result is the smallest count there is
C23_Witness ==
  /\ call.op = "get"
  /\ CurInfo.otype = "Record"
  /\ call.subIdx = 0
  /\ call.size = 1
  /\ ret = 1

-----------------------------------------------------------------------------
\* the value a get of the current object asks for: the whole scalar, the
\* element count, or the element / field at the sub-index
Requested ==
  IF call.op = "get_all" \/ CurInfo.otype = "Variable"
    THEN MemBytes(mem[cur], CurInfo.data_offset, CurInfo.data_size)
  ELSE IF call.subIdx = 0 THEN <<CurInfo.nelem>>
  ELSE IF CurInfo.otype = "Array"
    THEN MemBytes(mem[cur],
           CurInfo.data_offset + type_size(CurInfo.type) * (call.subIdx - 1),
           type_size(CurInfo.type))
  ELSE MemBytes(mem[cur], CurInfo.fields[call.subIdx].data_offset,
                CurInfo.fields[call.subIdx].data_size)

\* the get names the whole object or a sub-index that exists
Existing ==
  \/ call.op = "get_all"
  \/ call.op = "get" /\ IF CurInfo.otype = "Variable" THEN call.subIdx = 0
                         ELSE call.subIdx <= CurInfo.nelem

\* C24: for every object with bound data, every sub-index and every capacity
\* c (0 included), get writes at most c bytes into the caller's buffer; a
\* count n >= 0 it returns is at most c and the first n bytes of the buffer
\* hold the requested value; when c is smaller than the bytes required the
\* result is ParamTooShort and the buffer is as it was.
C24_BufferSafety ==
  (call.op \in {"get", "get_all"} /\ CurObj.data) =>
    /\ RestUntouched(call.size)
    /\ ret >= 0 => ret <= call.size /\ Prefix(buffer, ret) = Requested
    /\ Existing /\ call.size < Len(Requested) => ret = ParamTooShort /\ buffer = call.data

-----------------------------------------------------------------------------
\* C25: for every Record, a first field at a non-zero offset included, and
\* every field k in 1..nelem bound to set_default, a successful set(k, x)
\* modifies exactly the bytes [offset_k, offset_k + size_k) from the Object's
\* data pointer, the bytes get(k) reads, and no other byte of the storage.
C25_SetDefaultWritesField ==
  (/\ call.op = "set"
   /\ CurObj.data
   /\ CurInfo.otype = "Record"
   /\ call.subIdx \in 1..CurInfo.nelem
   /\ CurInfo.set_function.fn = "set_data"
   /\ CurInfo.fields[call.subIdx].set_function.fn = "set_default"
   /\ ret = OK) =>
    LET field == CurInfo.fields[call.subIdx]
    IN mem[cur] = Store(call.premem, field.data_offset, call.data, field.data_size)

-----------------------------------------------------------------------------
\* C26: on an Object whose data pointer is null, set(subIdx, x) is dispatched
\* to the bound mutation function and returns its result, and no strategy
\* stores through the null pointer.
C26_NoStoreThroughNull ==
  (call.op = "set" /\ ~CurObj.data) =>
    /\ ret = Object_set(CurObj, call.premem, call.subIdx, call.data, call.size, call.ext).ret
    /\ ~call.fault

-----------------------------------------------------------------------------
\* C27: set and get agree on which sub-indices exist.  For an object with its
\* built-in setter (set_variable or set_string_variable of a Variable,
\* set_data of a Record): when get(s, ...) on the readable object returns
\* FieldNotFound, set(s, x) returns FieldNotFound for every x and writes
\* nothing.
C27_SetGetAgreeOnSubIndex ==
  (/\ call.op = "set"
   /\ CurObj.data
   /\ CurSetter.fn \in {"set_variable", "set_string_variable", "set_data"}
   /\ Object_get(CurObj, call.premem, call.subIdx, FreshBuffer(0), BufLen).ret = FieldNotFound) =>
    /\ ret = FieldNotFound
    /\ mem[cur] = call.premem

-----------------------------------------------------------------------------
\* the value text of the line command_set was given, and the name before '='
ValueText == trim_prefix(next_token(con.line, "isequal").str, "isspace")
NameText == trim_suffix(next_token(con.line, "isequal").token, "isspace")

\* what the query of the name resolves
Resolved == Dictionary_query(Query_ctor(NameText))

\* C29: the console's set command invokes Object::set only after the query
\* has returned OK and the value text has been parsed OK for the resolved
\* type, and only with a sub-index the query resolved (or 0 for a whole
\* Variable); when parsing the value fails, or a compound object is named
\* without a sub-object, no set is performed, the storage is unchanged and
\* the error shown is the parse / query error.
C29_SetAfterQueryAndParse ==
  con.stage = "set" =>
    /\ con.out.set # NotRun =>
         /\ con.out.query = OK
         /\ con.out.parsed = OK
         /\ con.out.subIdx = IF Resolved.q.subIdx < 0 THEN 0 ELSE Resolved.q.subIdx
    /\ (con.out.query = OK /\ con.out.parsed \notin {OK, NotRun}) =>
         /\ con.out.set = NotRun
         /\ mem = con.premem
         /\ con.out.shown = "error" /\ con.out.e = con.out.parsed
    /\ (con.out.query = OK /\ Resolved.q.subIdx < 0
          /\ items[con.out.item].object.info.otype # "Variable") =>
         /\ con.out.set = NotRun
         /\ mem = con.premem

-----------------------------------------------------------------------------
\* C30: whenever the input area is full (the end of the get area has reached
\* the end of the input buffer while unread characters remain, so that
\* try_get cannot read), iobuffer::poll returns EOF, a negative value, and
\* Console::poll takes its "Input buffer overflow!" branch, which discards
\* the buffered input.
C30_FullBufferReported ==
  (con.stage = "idle" /\ con.op = "poll" /\ con.eof) =>
    /\ con.status < 0
    /\ con.cmd = "overflow"

=============================================================================
